---- MODULE Spec2Model ----
(***************************************************************************)
(* Root scoping of tools/call requests in the GitHub MCP server:           *)
(* ParseGitHubRootURI / ParseGitHubRoots, the root-injection middleware    *)
(* (RootsMiddleware), the root-enforcement middleware                      *)
(* (RootsEnforcementMiddleware) and the middleware chain NewMCPServer      *)
(* builds.  A string is a sequence of one-character strings, so that       *)
(* strings.ToLower, TrimSuffix and SplitN are computed, not assumed.       *)
(***************************************************************************)
EXTENDS Integers, Sequences, FiniteSets, TLC

\* Longest list of roots a client declares.
MaxRoots == 2

----------------------------------------------------------------------------
(* Strings                                                                 *)

UpperAlphabet == <<"A","B","C","D","E","F","G","H","I","J","K","L","M",
                   "N","O","P","Q","R","S","T","U","V","W","X","Y","Z">>

LowerAlphabet == <<"a","b","c","d","e","f","g","h","i","j","k","l","m",
                   "n","o","p","q","r","s","t","u","v","w","x","y","z">>

\* The lower-case letter of each upper-case letter.
LowerOf ==
    [c \in {UpperAlphabet[i] : i \in 1..Len(UpperAlphabet)} |->
        LowerAlphabet[CHOOSE i \in 1..Len(UpperAlphabet) : UpperAlphabet[i] = c]]

\* unicode.ToLower on one ASCII character.
LowerChar(c) == IF c \in DOMAIN LowerOf THEN LowerOf[c] ELSE c

\* strings.ToLower
ToLower(s) == [i \in 1..Len(s) |-> LowerChar(s[i])]

\* A comparison that tells letter case apart.
EqualExact(s, t) == s = t

\* strings.EqualFold, on ASCII
EqualFold(s, t) == ToLower(s) = ToLower(t)

HasPrefix(s, p) == Len(s) >= Len(p) /\ SubSeq(s, 1, Len(p)) = p

HasSuffix(s, p) == Len(s) >= Len(p) /\ SubSeq(s, Len(s) - Len(p) + 1, Len(s)) = p

\* strings.TrimPrefix: removes one leading p, if there is one.
TrimPrefix(s, p) == IF HasPrefix(s, p) THEN SubSeq(s, Len(p) + 1, Len(s)) ELSE s

\* strings.TrimSuffix: removes one trailing p, if there is one.
TrimSuffix(s, p) == IF HasSuffix(s, p) THEN SubSeq(s, 1, Len(s) - Len(p)) ELSE s

\* Position of the first c in s, 0 when there is none.
IndexOf(s, c) ==
    IF \E i \in 1..Len(s) : s[i] = c
    THEN CHOOSE i \in 1..Len(s) : s[i] = c /\ \A j \in 1..(i - 1) : s[j] # c
    ELSE 0

\* strings.SplitN(s, "/", 3): at most three parts, the last one unsplit.
SplitN3(s) ==
    LET i == IndexOf(s, "/") IN
    IF i = 0 THEN <<s>>
    ELSE LET rest == SubSeq(s, i + 1, Len(s))
             j    == IndexOf(rest, "/")
         IN  IF j = 0 THEN <<SubSeq(s, 1, i - 1), rest>>
             ELSE <<SubSeq(s, 1, i - 1), SubSeq(rest, 1, j - 1),
                    SubSeq(rest, j + 1, Len(rest))>>

DotGit == <<".","g","i","t">>

Slash == <<"/">>

----------------------------------------------------------------------------
(* Root URIs, as url.Parse delivers them                                   *)

GitHubCom == <<"g","i","t","h","u","b",".","c","o","m">>

GitHubComMixed == <<"G","i","t","H","u","b",".","c","o","m">>

GitLabCom == <<"g","i","t","l","a","b",".","c","o","m">>

\* valid: url.Parse returned no error.  scheme, host, path: the parsed URL's.
URI(scheme, host, path) == [valid |-> TRUE, scheme |-> scheme, host |-> host, path |-> path]

\* The error messages name the URI; the model keeps the reason only.
ParseError(why) == [err |-> why, owner |-> <<>>, repo |-> <<>>]

ParseOK(owner, repo) == [err |-> "nil", owner |-> owner, repo |-> repo]

\* ParseGitHubRootURI(uri, host) -> (owner, repo, err)
ParseGitHubRootURI(uri, host) ==
    LET h == IF host = <<>> THEN GitHubCom ELSE host IN
    IF ~uri.valid THEN ParseError("invalid URI")
    ELSE IF uri.scheme \notin {"https", "http", "git"} THEN ParseError("unsupported URI scheme")
    ELSE IF ~EqualFold(uri.host, h) THEN ParseError("host mismatch")
    ELSE LET path == TrimSuffix(TrimPrefix(uri.path, Slash), Slash) IN
         IF path = <<>> THEN ParseError("no path")
         ELSE LET segments == SplitN3(path) IN
              IF Len(segments) = 0 \/ segments[1] = <<>> THEN ParseError("no path")
              ELSE ParseOK(ToLower(segments[1]),
                           IF Len(segments) >= 2 /\ segments[2] # <<>>
                           THEN ToLower(TrimSuffix(segments[2], DotGit))
                           ELSE <<>>)

\* A declared root is a *mcp.Root: nil, or a root with its URI.
NilRoot == [nil |-> TRUE, uri |-> [valid |-> FALSE, scheme |-> "", host |-> <<>>, path |-> <<>>]]

McpRoot(uri) == [nil |-> FALSE, uri |-> uri]

\* type Root struct { Owner, Repo, URI, Name }   (Name plays no part here)
Root(owner, repo, uri) == [Owner |-> owner, Repo |-> repo, URI |-> uri]

\* A resolver that gives up the whole list for one nil or rejected entry.
ParseGitHubRootsAllOrNothing(roots, host) ==
    IF \E i \in 1..Len(roots) :
          roots[i].nil \/ ParseGitHubRootURI(roots[i].uri, host).err # "nil"
    THEN <<>>
    ELSE [i \in 1..Len(roots) |->
             Root(ParseGitHubRootURI(roots[i].uri, host).owner,
                  ParseGitHubRootURI(roots[i].uri, host).repo, roots[i].uri)]

RECURSIVE ParseGitHubRoots(_, _)
\* ParseGitHubRoots(roots, host) -> []Root
ParseGitHubRoots(roots, host) ==
    IF roots = <<>> THEN <<>>
    ELSE LET root == Head(roots)
             p    == ParseGitHubRootURI(root.uri, host)
         IN  (IF root.nil \/ p.err # "nil" THEN <<>>
              ELSE <<Root(p.owner, p.repo, root.uri)>>)
             \o ParseGitHubRoots(Tail(roots), host)

----------------------------------------------------------------------------
(* The list_roots tool                                                      *)

\* type rootInfo struct { URI, Name, Owner, Repo }   (Name plays no part here)
rootInfo(uri, owner, repo) == [URI |-> uri, Owner |-> owner, Repo |-> repo]

\* json.Marshal of a rootInfo: "uri" always, "owner" and "repo" only when
\* they are not empty (omitempty).
MarshalRootInfo(info) ==
    [uri |-> info.URI,
     keys |-> {"uri"} \cup (IF info.Owner # <<>> THEN {"owner"} ELSE {})
                      \cup (IF info.Repo # <<>> THEN {"repo"} ELSE {}),
     owner |-> info.Owner, repo |-> info.Repo]

\* What the handler of a tool returns: (*mcp.CallToolResult, any, error).
\* `infos` are the objects of the JSON array in the text, if it is one.
ToolAnswer(isError, text, infos) ==
    [returned |-> TRUE, isError |-> isError, text |-> text, infos |-> infos, err |-> "nil"]

\* MarshalledTextResult(infos): a nil slice is marshalled as null, any other
\* as the array of its marshalled elements.
MarshalledTextResult(infos) ==
    IF infos = <<>> THEN ToolAnswer(FALSE, "null", <<>>)
    ELSE ToolAnswer(FALSE, "array", [i \in 1..Len(infos) |-> MarshalRootInfo(infos[i])])

RECURSIVE RootInfos(_, _)
\* for _, root := range rootsResult.Roots { ... infos = append(infos, info) }
RootInfos(declared, host) ==
    IF declared = <<>> THEN <<>>
    ELSE LET root == Head(declared)
             p    == ParseGitHubRootURI(root.uri, host)
         IN  (IF root.nil THEN <<>>
              ELSE IF p.err = "nil" THEN <<rootInfo(root.uri, p.owner, p.repo)>>
              ELSE <<rootInfo(root.uri, <<>>, <<>>)>>)
             \o RootInfos(Tail(declared), host)

RECURSIVE GitHubRootInfos(_, _)
\* The infos of the roots ParseGitHubRootURI accepts, the others left out.
GitHubRootInfos(declared, host) ==
    IF declared = <<>> THEN <<>>
    ELSE LET root == Head(declared)
             p    == ParseGitHubRootURI(root.uri, host)
         IN  (IF root.nil \/ p.err # "nil" THEN <<>>
              ELSE <<rootInfo(root.uri, p.owner, p.repo)>>)
             \o GitHubRootInfos(Tail(declared), host)

\* A list_roots that lists the GitHub roots only.
ListRootsToolGitHubOnly(session, listed, host) ==
    IF ~session THEN ToolAnswer(TRUE, "no session available", <<>>)
    ELSE IF listed.err THEN ToolAnswer(TRUE, "failed to list roots", <<>>)
    ELSE IF listed.roots = <<>> THEN ToolAnswer(FALSE, "No roots configured", <<>>)
    ELSE MarshalledTextResult(GitHubRootInfos(listed.roots, host))

\* The handler of ListRootsTool(t, host), for a request with or without a
\* session whose ListRoots returns `listed`.
ListRootsTool(session, listed, host) ==
    IF ~session THEN ToolAnswer(TRUE, "no session available", <<>>)
    ELSE IF listed.err THEN ToolAnswer(TRUE, "failed to list roots", <<>>)
    ELSE IF listed.roots = <<>> THEN ToolAnswer(FALSE, "No roots configured", <<>>)
    ELSE MarshalledTextResult(RootInfos(listed.roots, host))

----------------------------------------------------------------------------
(* JSON argument payloads (json.RawMessage) and their decoding               *)

\* A number n is the pair <<hi, lo>> standing for hi * Limb + lo, 0 <= lo < Limb.
Limb == 2^27

JString(s) == [t |-> "string", s |-> s, n |-> <<0, 0>>]

JNumber(n) == [t |-> "number", s |-> <<>>, n |-> n]

JNull == [t |-> "null", s |-> <<>>, n |-> <<0, 0>>]

\* The float64 nearest to the integer n (round half to even), for n < 2^54:
\* below 2^53 every integer is a float64, from 2^53 on only the even ones are.
Float64(n) ==
    LET hi == n[1]
        lo == n[2]
    IN  IF hi < Limb \div 2 \/ lo % 2 = 0 THEN n
        ELSE IF ((lo - 1) \div 2) % 2 = 0 THEN <<hi, lo - 1>>
        ELSE IF lo + 1 = Limb THEN <<hi + 1, 0>>
        ELSE <<hi, lo + 1>>

\* What json.Unmarshal into an `any` makes of a value, and json.Marshal writes
\* back: strings and null as they are, a number through float64.
DecodeValue(v) == IF v.t = "number" THEN JNumber(Float64(v.n)) ELSE v

\* A payload: kind "empty" (no bytes), "malformed" (bytes that are no JSON
\* object) or "object" with its fields.
Payload(kind, fields) == [kind |-> kind, fields |-> fields]

NoFields == [f \in {} |-> JNull]

\* A decoder that reads bytes that are no JSON object as the empty object.
UnmarshalLenient(arguments) ==
    [err |-> FALSE,
     args |-> [f \in DOMAIN arguments.fields |-> DecodeValue(arguments.fields[f])]]

\* json.Unmarshal(arguments, &args) with var args map[string]any
Unmarshal(arguments) ==
    IF arguments.kind = "malformed" THEN [err |-> TRUE, args |-> NoFields]
    ELSE [err |-> FALSE,
          args |-> [f \in DOMAIN arguments.fields |-> DecodeValue(arguments.fields[f])]]

\* json.Marshal(args): the map written back as an object.  Every value a JSON
\* document decodes to can be encoded again, so err is never set.
Marshal(args) == [err |-> FALSE, data |-> Payload("object", args)]

Has(args, f) == f \in DOMAIN args

\* args[f] = v on a Go map
Put(args, f, v) == [g \in (DOMAIN args) \cup {f} |-> IF g = f THEN v ELSE args[g]]

\* v.(string): the string and ok
IsString(v) == v.t = "string"

----------------------------------------------------------------------------
(* RootsMiddleware: injection of owner/repo defaults                       *)

\* repoRoots: the roots with a non-empty Repo, in order.
RepoRoots(ghRoots) == SelectSeq(ghRoots, LAMBDA r : r.Repo # <<>>)

\* A comparison that reads Repo where it should read Owner.
AllSameOwnerByRepo(ghRoots) ==
    \A i \in 2..Len(ghRoots) : ghRoots[i].Repo = ghRoots[1].Repo

\* allSameOwner
AllSameOwner(ghRoots) ==
    \A i \in 2..Len(ghRoots) : ghRoots[i].Owner = ghRoots[1].Owner

NoLog == [emitted |-> FALSE, tool |-> "", owner |-> <<>>, hasRepo |-> FALSE, repo |-> <<>>]

\* logger.Info("roots middleware: injected defaults from roots", "tool", ..., "owner", ..., ["repo", ...])
InjectionLog(tool, commonOwner, repoRoots) ==
    [emitted |-> TRUE, tool |-> tool, owner |-> commonOwner,
     hasRepo |-> Len(repoRoots) = 1,
     repo |-> IF Len(repoRoots) = 1 THEN repoRoots[1].Repo ELSE <<>>]

\* What one run of the middleware hands to next: the (possibly rewritten)
\* arguments, the audit record and the branch it took; ghRoots: the roots it
\* resolved, when it came that far.
Injection(arguments, log, path) ==
    [arguments |-> arguments, log |-> log, path |-> path, ghRoots |-> <<>>]

\* An outcome reached with ghRoots resolved.
Resolving(ghRoots, outcome) == [outcome EXCEPT !.ghRoots = ghRoots]

\* An injection of the owner that holds back when the caller named a repo.
InjectOwnerUnlessRepo(args, commonOwner) ==
    IF ~Has(args, "owner") /\ ~Has(args, "repo")
    THEN Put(args, "owner", JString(commonOwner)) ELSE args

\* if _, hasOwner := args["owner"]; !hasOwner { args["owner"] = commonOwner }
InjectOwner(args, commonOwner) ==
    IF ~Has(args, "owner") THEN Put(args, "owner", JString(commonOwner)) ELSE args

\* An injection that takes the first repo-level root whenever there is one.
InjectRepoFirst(args, repoRoots) ==
    IF Len(repoRoots) >= 1 /\ ~Has(args, "repo")
    THEN Put(args, "repo", JString(repoRoots[1].Repo)) ELSE args

\* An injection of the repo as the root URI may write it, ".git" included.
InjectRepoWithSuffix(args, repoRoots) ==
    IF Len(repoRoots) = 1 /\ ~Has(args, "repo")
    THEN Put(args, "repo", JString(repoRoots[1].Repo \o DotGit)) ELSE args

\* if len(repoRoots) == 1 { if _, hasRepo := args["repo"]; !hasRepo { args["repo"] = repoRoots[0].Repo } }
InjectRepo(args, repoRoots) ==
    IF Len(repoRoots) = 1 /\ ~Has(args, "repo")
    THEN Put(args, "repo", JString(repoRoots[1].Repo)) ELSE args

\* The part of the middleware after the roots are resolved and non-empty.
InjectFromRoots(ghRoots, tool, arguments) ==
    IF ~AllSameOwner(ghRoots) THEN Injection(arguments, NoLog, "multipleOwners")
    ELSE LET u == Unmarshal(arguments) IN
         IF arguments.kind # "empty" /\ u.err
         THEN Injection(arguments, NoLog, "badArguments")
         ELSE LET args0       == IF arguments.kind = "empty" THEN NoFields ELSE u.args
                  commonOwner == ghRoots[1].Owner
                  repoRoots   == RepoRoots(ghRoots)
                  args1       == InjectOwner(args0, commonOwner)
                  args2       == InjectRepo(args1, repoRoots)
                  modified    == (DOMAIN args2) # (DOMAIN args0)
                  newArgs     == Marshal(args2)
              IN  IF ~modified THEN Injection(arguments, NoLog, "unmodified")
                  ELSE IF newArgs.err THEN Injection(arguments, NoLog, "marshalFailed")
                  ELSE Injection(newArgs.data,
                                 InjectionLog(tool, commonOwner, repoRoots), "injected")

\* RootsMiddleware(host, logger)(next)(ctx, method, request), up to its call of next.
\* session: the request is a *mcp.CallToolRequest with a Session;
\* listed: what Session.ListRoots returned.
RootsMiddleware(method, session, listed, host, tool, arguments) ==
    IF method # "tools/call" THEN Injection(arguments, NoLog, "notToolsCall")
    ELSE IF ~session THEN Injection(arguments, NoLog, "noSession")
    ELSE IF listed.err THEN Injection(arguments, NoLog, "listRootsFailed")
    ELSE IF Len(listed.roots) = 0 THEN Injection(arguments, NoLog, "noRoots")
    ELSE LET ghRoots == ParseGitHubRoots(listed.roots, host) IN
         IF Len(ghRoots) = 0 THEN Injection(arguments, NoLog, "noGitHubRoots")
         ELSE Resolving(ghRoots, InjectFromRoots(ghRoots, tool, arguments))

----------------------------------------------------------------------------
(* RootsEnforcementMiddleware: validation of owner/repo against the roots  *)

\* A tool result (*mcp.CallToolResult): the error flag and what the text says.
\* kind "echo": the test tool's answer; "owner"/"repo": a denial, naming the
\* owner (and repo) as the caller wrote them and what is allowed.
ToolResult(isError, kind, owner, repo, allowedOwners, allowedRepos) ==
    [isError |-> isError, kind |-> kind, owner |-> owner, repo |-> repo,
     allowedOwners |-> allowedOwners, allowedRepos |-> allowedRepos]

NoResult == ToolResult(FALSE, "none", <<>>, <<>>, {}, <<>>)

\* utils.NewToolResultError(msg)
NewToolResultError(kind, owner, repo, allowedOwners, allowedRepos) ==
    ToolResult(TRUE, kind, owner, repo, allowedOwners, allowedRepos)

\* What one run of the middleware does: forward to next, or return `result`
\* with a nil error; and the branch it took.
Forward(path) ==
    [forward |-> TRUE, result |-> NoResult, err |-> "nil", path |-> path, ghRoots |-> <<>>]

\* A denial that is logged but not returned: control falls through to next.
DenyWithoutReturn(result, path) ==
    [forward |-> TRUE, result |-> result, err |-> "nil", path |-> path, ghRoots |-> <<>>]

\* return utils.NewToolResultError(msg), nil
Deny(result, path) ==
    [forward |-> FALSE, result |-> result, err |-> "nil", path |-> path, ghRoots |-> <<>>]

\* ownerAllowed: some root has this owner.
OwnerAllowed(ghRoots, ownerLower) ==
    \E i \in 1..Len(ghRoots) : ghRoots[i].Owner = ownerLower

\* hasOrgRoot: an org-level root for this owner.
HasOrgRoot(ghRoots, ownerLower) ==
    \E i \in 1..Len(ghRoots) : ghRoots[i].Owner = ownerLower /\ ghRoots[i].Repo = <<>>

\* A repo check that forgets the owner.
RepoAllowedAnyOwner(ghRoots, ownerLower, repoLower) ==
    \E i \in 1..Len(ghRoots) : ghRoots[i].Repo = repoLower

\* repoAllowed: a repo-level root that matches owner and repo exactly.
RepoAllowed(ghRoots, ownerLower, repoLower) ==
    \E i \in 1..Len(ghRoots) :
        ghRoots[i].Owner = ownerLower /\ ghRoots[i].Repo = repoLower

\* The owners of the roots (the keys of the map the message is built from).
AllowedOwners(ghRoots) == {ghRoots[i].Owner : i \in 1..Len(ghRoots)}

\* A list of the repos of all repo-level roots, whoever owns them.
AllowedReposAnyOwner(ghRoots, ownerLower) ==
    LET all == SelectSeq(ghRoots, LAMBDA r : r.Repo # <<>>)
    IN  [i \in 1..Len(all) |-> all[i].Repo]

\* allowedRepos: the repos of this owner's repo-level roots, in order.
AllowedRepos(ghRoots, ownerLower) ==
    LET mine == SelectSeq(ghRoots, LAMBDA r : r.Owner = ownerLower /\ r.Repo # <<>>)
    IN  [i \in 1..Len(mine) |-> mine[i].Repo]

\* An enforcement that checks an empty or non-string owner like any other.
EnforceArgsStrict(ghRoots, args) ==
    IF ~Has(args, "owner") THEN Forward("noOwner")
    ELSE LET owner      == args["owner"].s
             ownerLower == ToLower(owner)
         IN  IF ~OwnerAllowed(ghRoots, ownerLower)
             THEN Deny(NewToolResultError("owner", owner, <<>>, AllowedOwners(ghRoots), <<>>),
                       "ownerDenied")
             ELSE IF Has(args, "repo")
                     /\ ~HasOrgRoot(ghRoots, ownerLower)
                     /\ ~RepoAllowed(ghRoots, ownerLower, ToLower(args["repo"].s))
             THEN Deny(NewToolResultError("repo", owner, args["repo"].s, {},
                                          AllowedRepos(ghRoots, ownerLower)),
                       "repoDenied")
             ELSE Forward("allowed")

\* The checks on the decoded arguments (args may be the nil map).
EnforceArgs(ghRoots, args) ==
    IF ~Has(args, "owner") THEN Forward("noOwner")
    ELSE IF ~IsString(args["owner"]) \/ args["owner"].s = <<>> THEN Forward("ownerNotString")
    ELSE LET owner      == args["owner"].s
             ownerLower == ToLower(owner)
         IN  IF ~OwnerAllowed(ghRoots, ownerLower)
             THEN Deny(NewToolResultError("owner", owner, <<>>, AllowedOwners(ghRoots), <<>>),
                       "ownerDenied")
             ELSE IF Has(args, "repo")
                     /\ IsString(args["repo"]) /\ args["repo"].s # <<>>
                     /\ ~HasOrgRoot(ghRoots, ownerLower)
                     /\ ~RepoAllowed(ghRoots, ownerLower, ToLower(args["repo"].s))
             THEN Deny(NewToolResultError("repo", owner, args["repo"].s, {},
                                          AllowedRepos(ghRoots, ownerLower)),
                       "repoDenied")
             ELSE Forward("allowed")

\* An enforcement that treats an empty resolved list as "nothing is allowed".
RootsEnforcementMiddlewareNoEmptyCheck(method, session, listed, host, arguments) ==
    IF method # "tools/call" THEN Forward("notToolsCall")
    ELSE IF ~session THEN Forward("noSession")
    ELSE IF listed.err THEN Forward("listRootsFailed")
    ELSE LET ghRoots == ParseGitHubRoots(listed.roots, host)
             u       == Unmarshal(arguments)
         IN  IF arguments.kind # "empty" /\ u.err THEN Forward("badArguments")
             ELSE Resolving(ghRoots,
                            EnforceArgs(ghRoots,
                                        IF arguments.kind = "empty" THEN NoFields ELSE u.args))

\* An enforcement that returns the error of ListRoots to its caller.
RootsEnforcementMiddlewareFailHard(method, session, listed, host, arguments) ==
    IF method # "tools/call" THEN Forward("notToolsCall")
    ELSE IF ~session THEN Forward("noSession")
    ELSE IF listed.err
         THEN [Deny(NoResult, "listRootsFailed") EXCEPT !.err = "ListRoots failed"]
    ELSE IF Len(listed.roots) = 0 THEN Forward("noRoots")
    ELSE LET ghRoots == ParseGitHubRoots(listed.roots, host) IN
         IF Len(ghRoots) = 0 THEN Forward("noGitHubRoots")
         ELSE LET u == Unmarshal(arguments) IN
              IF arguments.kind # "empty" /\ u.err
              THEN Resolving(ghRoots, Forward("badArguments"))
              ELSE Resolving(ghRoots,
                             EnforceArgs(ghRoots,
                                         IF arguments.kind = "empty" THEN NoFields ELSE u.args))

\* RootsEnforcementMiddleware(host, logger)(next)(ctx, method, request), up to
\* its call of next or its return of a denial.
RootsEnforcementMiddleware(method, session, listed, host, arguments) ==
    IF method # "tools/call" THEN Forward("notToolsCall")
    ELSE IF ~session THEN Forward("noSession")
    ELSE IF listed.err THEN Forward("listRootsFailed")
    ELSE IF Len(listed.roots) = 0 THEN Forward("noRoots")
    ELSE LET ghRoots == ParseGitHubRoots(listed.roots, host) IN
         IF Len(ghRoots) = 0 THEN Forward("noGitHubRoots")
         ELSE LET u == Unmarshal(arguments) IN
              IF arguments.kind # "empty" /\ u.err
              THEN Resolving(ghRoots, Forward("badArguments"))
              ELSE Resolving(ghRoots,
                             EnforceArgs(ghRoots,
                                         IF arguments.kind = "empty" THEN NoFields ELSE u.args))

----------------------------------------------------------------------------
(* Servers: the chain of receiving middleware, outermost first             *)

\* server.AddReceivingMiddleware(ms...): ms wrap the handler built so far, the
\* first of ms outermost.
AddReceivingMiddleware(chain, ms) == ms \o chain

\* NewMCPServer(ctx, cfg, deps, inv, middleware...): the middleware it adds.
NewMCPServer(insidersMode, middleware) ==
    LET c1 == AddReceivingMiddleware(<<>>, middleware)
        c2 == IF insidersMode
              THEN AddReceivingMiddleware(c1, <<"RootsMiddleware">>)
              ELSE c1
        c3 == AddReceivingMiddleware(c2, <<"InjectDepsMiddleware">>)
    IN  AddReceivingMiddleware(c3, <<"addGitHubAPIErrorToContext">>)

\* NewStdioMCPServer(ctx, cfg): NewMCPServer without extra middleware, then
\* the user-agent middleware.
NewStdioMCPServer(insidersMode) ==
    [builtBy |-> "NewMCPServer", insiders |-> insidersMode,
     chain |-> AddReceivingMiddleware(NewMCPServer(insidersMode, <<>>),
                                      <<"addUserAgentsMiddleware">>)]

\* The server of TestRootsMiddleware_*: mcp.NewServer plus RootsMiddleware.
TestInjectionServer ==
    [builtBy |-> "TestRootsMiddleware", insiders |-> FALSE,
     chain |-> AddReceivingMiddleware(<<>>, <<"RootsMiddleware">>)]

\* The server of TestRootsEnforcementMiddleware_Integration's setup.
TestEnforcementServer ==
    [builtBy |-> "TestRootsEnforcementMiddleware", insiders |-> FALSE,
     chain |-> AddReceivingMiddleware(<<>>, <<"RootsEnforcementMiddleware">>)]

Servers ==
    {NewStdioMCPServer(FALSE), NewStdioMCPServer(TRUE),
     TestInjectionServer, TestEnforcementServer}

\* The host the middlewares are built with ("github.com" in the tests).
Host == GitHubCom

----------------------------------------------------------------------------
(* The Inventory of tools the server is built with                         *)

\* A []string that may be nil; the order of its entries plays no part.
NilList == [nil |-> TRUE, items |-> {}]

List(S) == [nil |-> FALSE, items |-> S]

\* ToolsetMetadataAll.ID and ToolsetMetadataDefault.ID
ToolsetMetadataAll == "all"

ToolsetMetadataDefault == "default"

\* RemoveToolset(toolsets, id)
RemoveToolset(toolsets, id) == List(toolsets.items \ {id})

\* A resolution that takes the defaults whatever tools are named.
ResolvedEnabledToolsetsDefaults(dynamicToolsets, enabledToolsets, enabledTools) ==
    LET toolsets == IF dynamicToolsets /\ ~enabledToolsets.nil
                    THEN RemoveToolset(RemoveToolset(enabledToolsets, ToolsetMetadataAll),
                                       ToolsetMetadataDefault)
                    ELSE enabledToolsets
    IN  IF ~toolsets.nil THEN toolsets
        ELSE IF dynamicToolsets THEN List({})
        ELSE NilList

\* ResolvedEnabledToolsets(dynamicToolsets, enabledToolsets, enabledTools):
\* nil for "use defaults", the empty list for "none", or the explicit list.
ResolvedEnabledToolsets(dynamicToolsets, enabledToolsets, enabledTools) ==
    LET toolsets == IF dynamicToolsets /\ ~enabledToolsets.nil
                    THEN RemoveToolset(RemoveToolset(enabledToolsets, ToolsetMetadataAll),
                                       ToolsetMetadataDefault)
                    ELSE enabledToolsets
    IN  IF ~toolsets.nil THEN toolsets
        ELSE IF dynamicToolsets THEN List({})
        ELSE IF enabledTools # {} THEN List({})
        ELSE NilList

\* createFeatureChecker(enabledFeatures): the flags the checker answers true for.
createFeatureChecker(enabledFeatures) == enabledFeatures

\* A tool descriptor: its name, its toolset, whether it is annotated
\* read-only, its feature flag ("" for none) and the scopes it requires.
Tool(name, toolset, readOnly, flag, scopes) ==
    [name |-> name, toolset |-> toolset, readOnly |-> readOnly, flag |-> flag,
     scopes |-> scopes]

\* AllTools(t, host), in small
AllTools ==
    {Tool("get_me", "context", TRUE, "", {}),
     Tool("list_issues", "issues", TRUE, "", {"repo"}),
     Tool("create_issue", "issues", FALSE, "", {"repo"}),
     Tool("ui_get", "repos", TRUE, "remote_mcp_ui_apps", {})}

AllToolsets == {t.toolset : t \in AllTools}

\* The toolsets marked Default: true.
DefaultToolsets == {"context", "repos"}

\* DeprecatedToolAliases: old name -> the name that replaced it
DeprecatedToolAliases == [old \in {"get_user"} |-> "get_me"]

\* The toolsets a toolset selection stands for.
ResolveToolsets(toolsets) ==
    IF toolsets.nil THEN DefaultToolsets
    ELSE IF ToolsetMetadataAll \in toolsets.items THEN AllToolsets
    ELSE (toolsets.items \cap AllToolsets)
         \cup (IF ToolsetMetadataDefault \in toolsets.items THEN DefaultToolsets ELSE {})

\* Builder.Build(): the resolution of the Inventory, step by step.
Build(builder) ==
    LET resolved == ResolveToolsets(builder.toolsets)
        step1 == {t \in AllTools : t.toolset \in resolved \/ t.name \in builder.tools}
        step2 == {t \in step1 : t.name \notin builder.excludeTools}
        step3 == IF builder.readOnly THEN {t \in step2 : t.readOnly} ELSE step2
        step4 == {t \in step3 : t.flag = "" \/ t.flag \in builder.featureChecker}
        step5 == IF builder.filter.nil THEN step4
                 ELSE {t \in step4 : t.scopes \subseteq builder.filter.items}
        names == {t.name : t \in step5}
    IN  [built |-> TRUE,
         tools |-> names,
         aliases |-> [old \in {a \in DOMAIN builder.aliases : builder.aliases[a] \in names}
                         |-> builder.aliases[old]],
         unrecognized |-> IF builder.toolsets.nil THEN {}
                          ELSE builder.toolsets.items
                               \ (AllToolsets \cup {ToolsetMetadataAll, ToolsetMetadataDefault})]

\* A builder that is handed no exclude list.
inventoryBuilderWithoutExclude(c) ==
    [aliases |-> DeprecatedToolAliases,
     readOnly |-> c.ReadOnly,
     toolsets |-> ResolvedEnabledToolsets(c.DynamicToolsets, c.EnabledToolsets, c.EnabledTools),
     tools |-> c.EnabledTools,
     excludeTools |-> {},
     featureChecker |-> createFeatureChecker(c.EnabledFeatures),
     filter |-> c.TokenScopes]

\* NewStdioMCPServer(ctx, cfg): the builder it configures from cfg; the scope
\* filter is added when cfg.TokenScopes is not nil.
inventoryBuilder(c) ==
    [aliases |-> DeprecatedToolAliases,
     readOnly |-> c.ReadOnly,
     toolsets |-> ResolvedEnabledToolsets(c.DynamicToolsets, c.EnabledToolsets, c.EnabledTools),
     tools |-> c.EnabledTools,
     excludeTools |-> c.ExcludeTools,
     featureChecker |-> createFeatureChecker(c.EnabledFeatures),
     filter |-> IF c.TokenScopes.nil THEN NilList ELSE c.TokenScopes]

\* The configurations a server is started with.
Configs ==
    [DynamicToolsets : BOOLEAN,
     EnabledToolsets : {NilList, List({}), List({ToolsetMetadataAll}),
                        List({ToolsetMetadataDefault}), List({"issues"}),
                        List({ToolsetMetadataAll, "issues"}),
                        List({"issues", "nonesuch"})},
     EnabledTools : SUBSET {"create_issue", "ui_get"},
     ExcludeTools : SUBSET {"get_me", "create_issue", "ui_get"},
     ReadOnly : BOOLEAN,
     EnabledFeatures : SUBSET {"remote_mcp_ui_apps"},
     TokenScopes : {NilList, List({}), List({"repo"})}]

----------------------------------------------------------------------------
(* MakeOwnerRepoOptional: owner and repo made optional in the tool schemas *)

\* A *jsonschema.Schema is an address of the heap, 0 for a nil pointer.  A
\* heap is the sequence of the schemas allocated so far; a description is
\* the sequence of the pieces it was put together from.
Schema(type, required, properties, description) ==
    [type |-> type, required |-> required, properties |-> properties,
     description |-> description]

\* map[string]*jsonschema.Schema: nil, or a pointer for every name.
NilProperties == [nil |-> TRUE, at |-> <<>>]

Properties(at) == [nil |-> FALSE, at |-> at]

\* inventory.ServerTool: its name and its InputSchema, an any that holds a
\* *jsonschema.Schema ("jsonschema") or a value of another type ("other").
ServerTool(name, holds, schema) == [name |-> name, holds |-> holds, schema |-> schema]

\* " (optional when roots are configured)"
OptionalNote == <<" (optional when roots are configured)">>

\* slices.Contains
Contains(list, x) == \E i \in 1..Len(list) : list[i] = x

\* A filter that takes only "owner" out of Required.
FilterRequiredOwnerOnly(required) ==
    LET Keep(r) == r # "owner" IN SelectSeq(required, Keep)

\* newRequired: Required without "owner" and "repo".
FilterRequired(required) ==
    LET Keep(r) == r # "owner" /\ r # "repo" IN SelectSeq(required, Keep)

\* The property k of a schema exists and is no nil pointer.
Exists(schema, k) ==
    /\ ~schema.properties.nil
    /\ k \in DOMAIN schema.properties.at
    /\ schema.properties.at[k] # 0

\* A transform that edits the schema and its properties where they are.
OptionalToolInPlace(tool, heap) ==
    IF tool.holds # "jsonschema" \/ tool.schema = 0 THEN [tool |-> tool, heap |-> heap]
    ELSE LET schema == heap[tool.schema] IN
         IF ~Contains(schema.required, "owner") /\ ~Contains(schema.required, "repo")
         THEN [tool |-> tool, heap |-> heap]
         ELSE [tool |-> tool,
               heap |-> [a \in 1..Len(heap) |->
                           IF a = tool.schema
                           THEN [heap[a] EXCEPT !.required = FilterRequired(@)]
                           ELSE IF \E k \in {"owner", "repo"} :
                                      Exists(schema, k) /\ schema.properties.at[k] = a
                           THEN [heap[a] EXCEPT !.description = @ \o OptionalNote]
                           ELSE heap[a]]]

\* One turn of the loop of MakeOwnerRepoOptional: result[i] and the heap
\* with the copies allocated for it.
OptionalTool(tool, heap) ==
    IF tool.holds # "jsonschema" \/ tool.schema = 0 THEN [tool |-> tool, heap |-> heap]
    ELSE LET schema == heap[tool.schema] IN
         IF ~Contains(schema.required, "owner") /\ ~Contains(schema.required, "repo")
         THEN [tool |-> tool, heap |-> heap]
         ELSE LET newRequired == FilterRequired(schema.required)
                  h1 == IF Exists(schema, "owner")
                        THEN Append(heap, [heap[schema.properties.at["owner"]]
                                              EXCEPT !.description = @ \o OptionalNote])
                        ELSE heap
                  h2 == IF Exists(schema, "repo")
                        THEN Append(h1, [heap[schema.properties.at["repo"]]
                                            EXCEPT !.description = @ \o OptionalNote])
                        ELSE h1
                  newProps ==
                      IF schema.properties.nil THEN schema.properties
                      ELSE Properties(
                               [k \in DOMAIN schema.properties.at |->
                                   IF k = "owner" /\ Exists(schema, k) THEN Len(h1)
                                   ELSE IF k = "repo" /\ Exists(schema, k) THEN Len(h2)
                                   ELSE schema.properties.at[k]])
                  h3 == Append(h2, [schema EXCEPT !.required = newRequired,
                                                  !.properties = newProps])
              IN  [tool |-> [tool EXCEPT !.schema = Len(h3)], heap |-> h3]

RECURSIVE MakeOwnerRepoOptional(_, _)
\* MakeOwnerRepoOptional(tools): the result and the heap after it.
MakeOwnerRepoOptional(tools, heap) ==
    IF tools = <<>> THEN [result |-> <<>>, heap |-> heap]
    ELSE LET first == OptionalTool(Head(tools), heap)
             rest  == MakeOwnerRepoOptional(Tail(tools), first.heap)
         IN  [result |-> <<first.tool>> \o rest.result, heap |-> rest.heap]

\* The schemas of the tools declared: the properties owner, repo and one
\* more, shared by the schemas that name them.
DeclaredHeap ==
    <<Schema("string", <<>>, NilProperties, <<"Repository owner">>),
      Schema("string", <<>>, NilProperties, <<"Repository name">>),
      Schema("string", <<>>, NilProperties, <<>>),
      Schema("object", <<"owner", "repo">>,
             Properties([k \in {"owner", "repo", "state"} |->
                           CASE k = "owner" -> 1 [] k = "repo" -> 2 [] OTHER -> 3]),
             <<>>),
      Schema("object", <<"owner", "repo", "sha">>, NilProperties, <<>>),
      Schema("object", <<>>, NilProperties, <<>>),
      Schema("object", <<"query">>,
             Properties([k \in {"owner", "query"} |-> IF k = "owner" THEN 1 ELSE 3]),
             <<>>),
      Schema("object", <<"sha", "owner", "path">>,
             Properties([k \in {"owner", "repo"} |-> IF k = "owner" THEN 1 ELSE 0]),
             <<>>),
      Schema("object", <<"repo">>,
             Properties([k \in {"owner", "repo"} |-> IF k = "owner" THEN 1 ELSE 2]),
             <<>>)>>

\* The tools declared.
DeclaredTools ==
    {ServerTool("list_issues", "jsonschema", 4),
     ServerTool("get_commit", "jsonschema", 5),
     ServerTool("get_me", "jsonschema", 6),
     ServerTool("search_code", "jsonschema", 7),
     ServerTool("get_file_contents", "jsonschema", 8),
     ServerTool("list_branches", "jsonschema", 9),
     ServerTool("raw_tool", "other", 0),
     ServerTool("nil_tool", "jsonschema", 0)}

----------------------------------------------------------------------------
(* Inputs                                                                  *)

A_r == <<"/","a","/","r">>

A_R_git == <<"/","A","/","R",".","g","i","t">>

A_org == <<"/","a">>

A_s_tree == <<"/","a","/","s","/","t","r","e","e">>

B_r == <<"/","b","/","r","/">>

\* The roots a client declares.
DeclaredRoots ==
    {NilRoot,
     McpRoot(URI("https", GitHubComMixed, A_R_git)),
     McpRoot(URI("https", GitHubCom, A_org)),
     McpRoot(URI("git", GitHubCom, A_s_tree)),
     McpRoot(URI("http", GitHubCom, B_r)),
     McpRoot(URI("https", GitLabCom, A_r))}

\* 2^53 + 1: the first integer that is no float64.
BigNumber == <<Limb \div 2, 1>>

OwnerValues ==
    {JString(<<>>), JNumber(<<0, 7>>), JString(<<"a">>), JString(<<"A">>), JString(<<"c">>)}

RepoValues ==
    {JString(<<>>), JNull, JString(<<"R">>), JString(<<"x">>)}

OtherValues == {JString(<<"o","p","e","n">>), JNumber(BigNumber)}

FieldNames == {"owner", "repo", "state"}

WellTyped(fields) ==
    /\ ("owner" \in DOMAIN fields => fields["owner"] \in OwnerValues)
    /\ ("repo" \in DOMAIN fields => fields["repo"] \in RepoValues)
    /\ ("state" \in DOMAIN fields => fields["state"] \in OtherValues)

\* The argument objects: owner, repo and one more field, each present or not.
ArgumentObjects ==
    UNION {{g \in [d -> OwnerValues \cup RepoValues \cup OtherValues] : WellTyped(g)} :
               d \in SUBSET FieldNames}

Payloads ==
    {Payload("empty", NoFields), Payload("malformed", NoFields)}
    \cup {Payload("object", fs) : fs \in ArgumentObjects}

----------------------------------------------------------------------------
(* One session of one server: the client declares roots and calls tools    *)

VARIABLES
    server,        \* the server's construction and middleware chain
    roots,         \* the roots the client has declared, in order
    pc,            \* "idle", "middleware", "handler" or "done"
    idx,           \* the middleware of the chain that runs next
    method,        \* the call's method
    session,       \* whether the request carries a session
    sent,          \* the arguments as the caller sent them
    arguments,     \* callReq.Params.Arguments as it is now
    injPath,       \* the branch RootsMiddleware took ("none": it has not run)
    injRoots,      \* the roots RootsMiddleware resolved (ghRoots)
    enfPath,       \* the branch RootsEnforcementMiddleware took
    enfRoots,      \* the roots RootsEnforcementMiddleware resolved (ghRoots)
    log,           \* the audit record of RootsMiddleware
    ran,           \* the middlewares that have finished, in order
    result,        \* the result returned to the caller
    err,           \* the transport error returned to the caller
    handlerCalls,  \* how often the handler behind the chain was invoked
    received,      \* the arguments the handler was invoked with
    pHost,         \* the host the functions below are applied with
    pUri,          \* the URI ParseGitHubRootURI was applied to
    pParsed,       \* what ParseGitHubRootURI returned for pUri
    pList,         \* the roots handed to ParseGitHubRoots
    pResolved,     \* what ParseGitHubRoots returned for pList
    pArgs,         \* the arguments a middleware was applied to
    pInjected,     \* what RootsMiddleware made of pList and pArgs
    pEnforced,     \* what RootsEnforcementMiddleware made of pList and pArgs
    pRecased,      \* <<>>, or the roots and arguments in another letter case and
                   \* whether RootsEnforcementMiddleware forwards them
    pChained,      \* what RootsEnforcementMiddleware made of pList and of the
                   \* arguments RootsMiddleware handed on
    pAnswer,       \* what the list_roots tool returned for a session listing pList
    cfg,           \* the configuration NewStdioMCPServer was called with
    configured,    \* the builder NewStdioMCPServer configured from cfg
    inventory,     \* the Inventory NewStdioMCPServer built from cfg
    mem,           \* the heap of schemas as it is now
    memBefore,     \* the heap when MakeOwnerRepoOptional was called
    original,      \* the tools handed to MakeOwnerRepoOptional
    optional,      \* the tools MakeOwnerRepoOptional returned
    applied,       \* whether MakeOwnerRepoOptional has returned
    sRoots,        \* the roots each session of one server has declared
    sCall,         \* each session's call: where it is and what became of it
    sSeen          \* the roots each session's last finished call was served with

\* The variables of a session and its calls.
callVars == <<server, roots, pc, idx, method, session, sent, arguments, injPath,
              injRoots, enfPath, enfRoots, log, ran, result, err, handlerCalls, received>>

\* The variables of the functions applied on their own.
scopeVars == <<pHost, pUri, pParsed, pList, pResolved, pArgs, pInjected, pEnforced,
               pRecased, pChained, pAnswer>>

\* The variables of the construction of the Inventory.
buildVars == <<cfg, configured, inventory>>

\* The variables of the schema transform.
schemaVars == <<mem, memBefore, original, optional, applied>>

\* The variables of the sessions served side by side.
sessionVars == <<sRoots, sCall, sSeen>>

vars == <<callVars, scopeVars, buildVars, schemaVars, sessionVars>>

notCallVars == <<scopeVars, buildVars, schemaVars, sessionVars>>

notScopeVars == <<callVars, buildVars, schemaVars, sessionVars>>

notBuildVars == <<callVars, scopeVars, schemaVars, sessionVars>>

notSchemaVars == <<callVars, scopeVars, buildVars, sessionVars>>

notSessionVars == <<callVars, scopeVars, buildVars, schemaVars>>

\* No tool has been declared yet.
SchemaIdle ==
    /\ mem = DeclaredHeap /\ memBefore = DeclaredHeap
    /\ original = <<>> /\ optional = <<>> /\ applied = FALSE

\* No server has been started yet.
NoConfig == [started |-> FALSE]

NoInventory == [built |-> FALSE, tools |-> {}, aliases |-> <<>>, unrecognized |-> {}]

\* No builder has been configured yet.
NoBuilder ==
    [aliases |-> <<>>, readOnly |-> FALSE, toolsets |-> NilList, tools |-> {},
     excludeTools |-> {}, featureChecker |-> {}, filter |-> NilList]

BuildIdle == cfg = NoConfig /\ configured = NoBuilder /\ inventory = NoInventory

\* No URI parsed yet.
NoURI == [valid |-> FALSE, scheme |-> "none", host |-> <<>>, path |-> <<>>]

NoParse == ParseError("none")

NoInjection == Injection(Payload("empty", NoFields), NoLog, "none")

NoEnforcement == Forward("none")

\* The list_roots tool has not been called.
NoAnswer == [returned |-> FALSE, isError |-> FALSE, text |-> "", infos |-> <<>>, err |-> "nil"]

\* No function applied.
ScopeIdle ==
    /\ pUri = NoURI /\ pParsed = NoParse
    /\ pList = <<>> /\ pResolved = <<>>
    /\ pArgs = Payload("empty", NoFields)
    /\ pInjected = NoInjection /\ pEnforced = NoEnforcement
    /\ pRecased = <<>>
    /\ pChained = NoEnforcement
    /\ pAnswer = NoAnswer

\* The sessions of one server.
Sessions == {1, 2}

\* A session's call that has not been made.
NoCall ==
    [pc |-> "idle", payload |-> Payload("empty", NoFields), injected |-> NoInjection,
     enforced |-> NoEnforcement]

\* No session has declared a root or made a call.
SessionsIdle ==
    /\ sRoots = [s \in Sessions |-> <<>>]
    /\ sCall = [s \in Sessions |-> NoCall]
    /\ sSeen = [s \in Sessions |-> <<>>]

ToolName == "echo_args"

NoPayload == Payload("empty", NoFields)

\* No call in flight.
Idle ==
    /\ pc = "idle" /\ idx = 0 /\ method = "" /\ session = FALSE
    /\ sent = NoPayload /\ arguments = NoPayload
    /\ injPath = "none" /\ injRoots = <<>> /\ enfPath = "none" /\ enfRoots = <<>>
    /\ log = NoLog /\ ran = <<>>
    /\ result = NoResult /\ err = "nil" /\ handlerCalls = 0 /\ received = NoPayload

Init ==
    /\ server \in Servers
    /\ roots = <<>>
    /\ Idle
    /\ pHost = Host
    /\ ScopeIdle
    /\ BuildIdle
    /\ SchemaIdle
    /\ SessionsIdle

\* client.AddRoots(root)
AddRoots(root) ==
    /\ pc = "idle"
    /\ Len(roots) < MaxRoots
    /\ roots' = Append(roots, root)
    /\ UNCHANGED <<server, pc, idx, method, session, sent, arguments, injPath,
                   injRoots, enfPath, enfRoots, log, ran, result, err, handlerCalls,
                   received>>
    /\ UNCHANGED notCallVars

\* A request enters the chain: clientSession.CallTool(...), any other method,
\* or a handler invoked directly with a request without session.
Call(m, withSession, payload) ==
    /\ pc = "idle"
    /\ pc' = "middleware"
    /\ idx' = 1
    /\ method' = m
    /\ session' = withSession
    /\ sent' = payload
    /\ arguments' = payload
    /\ UNCHANGED <<server, roots, injPath, injRoots, enfPath, enfRoots, log, ran,
                   result, err, handlerCalls, received>>
    /\ UNCHANGED notCallVars

\* Control after the middleware at idx has called next.
CallNext ==
    /\ ran' = Append(ran, server.chain[idx])
    /\ IF idx = Len(server.chain)
       THEN pc' = "handler" /\ idx' = 0
       ELSE pc' = "middleware" /\ idx' = idx + 1

Running(name) == pc = "middleware" /\ server.chain[idx] = name

\* Session.ListRoots(ctx, nil): an error (the client does not support roots,
\* the round trip failed or was cancelled) or the declared roots.
ListRoots == {[err |-> TRUE, roots |-> <<>>], [err |-> FALSE, roots |-> roots]}

\* addUserAgentsMiddleware: only "initialize" is looked at.
UserAgentsStep ==
    /\ Running("addUserAgentsMiddleware")
    /\ CallNext
    /\ UNCHANGED <<server, roots, method, session, sent, arguments, injPath,
                   injRoots, enfPath, enfRoots, log, result, err, handlerCalls,
                   received>>
    /\ UNCHANGED notCallVars

\* addGitHubAPIErrorToContext: a fresh error context, then next.
ErrorContextStep ==
    /\ Running("addGitHubAPIErrorToContext")
    /\ CallNext
    /\ UNCHANGED <<server, roots, method, session, sent, arguments, injPath,
                   injRoots, enfPath, enfRoots, log, result, err, handlerCalls,
                   received>>
    /\ UNCHANGED notCallVars

\* InjectDepsMiddleware: the dependencies go into the context, then next.
InjectDepsStep ==
    /\ Running("InjectDepsMiddleware")
    /\ CallNext
    /\ UNCHANGED <<server, roots, method, session, sent, arguments, injPath,
                   injRoots, enfPath, enfRoots, log, result, err, handlerCalls,
                   received>>
    /\ UNCHANGED notCallVars

\* RootsMiddleware runs and calls next.
RootsMiddlewareStep ==
    /\ Running("RootsMiddleware")
    /\ \E listed \in ListRoots :
          LET inj == RootsMiddleware(method, session, listed, Host, ToolName, arguments)
          IN  /\ arguments' = inj.arguments
              /\ log' = inj.log
              /\ injPath' = inj.path
              /\ injRoots' = inj.ghRoots
    /\ CallNext
    /\ UNCHANGED <<server, roots, method, session, sent, enfPath, enfRoots, result,
                   err, handlerCalls, received>>
    /\ UNCHANGED notCallVars

\* A request forwarded with the owner it names in lower case.
NextRequestNormalized(payload) ==
    IF payload.kind = "object" /\ Has(payload.fields, "owner")
       /\ IsString(payload.fields["owner"])
    THEN Payload("object", Put(payload.fields, "owner",
                               JString(ToLower(payload.fields["owner"].s))))
    ELSE payload

\* next(ctx, method, request): the request the middleware was called with.
NextRequest(payload) == payload

\* RootsEnforcementMiddleware runs and either calls next or returns a denial.
RootsEnforcementStep ==
    /\ Running("RootsEnforcementMiddleware")
    /\ \E listed \in ListRoots :
          LET enf == RootsEnforcementMiddleware(method, session, listed, Host, arguments)
          IN  /\ enfPath' = enf.path
              /\ enfRoots' = enf.ghRoots
              /\ IF enf.forward
                 THEN /\ CallNext
                      /\ arguments' = NextRequest(arguments)
                      /\ UNCHANGED <<result, err>>
                 ELSE /\ pc' = "done" /\ idx' = 0
                      /\ ran' = Append(ran, server.chain[idx])
                      /\ result' = enf.result
                      /\ err' = enf.err
                      /\ UNCHANGED arguments
    /\ UNCHANGED <<server, roots, method, session, sent, injPath,
                   injRoots, log, handlerCalls, received>>
    /\ UNCHANGED notCallVars

\* The handler behind the chain: for tools/call the echo tool of the tests,
\* which answers with the arguments it was given.
Handler ==
    /\ pc = "handler"
    /\ pc' = "done"
    /\ handlerCalls' = handlerCalls + 1
    /\ received' = arguments
    /\ result' = ToolResult(FALSE, "echo", <<>>, <<>>, {}, <<>>)
    /\ err' = "nil"
    /\ UNCHANGED <<server, roots, idx, method, session, sent, arguments, injPath,
                   injRoots, enfPath, enfRoots, log, ran>>
    /\ UNCHANGED notCallVars

\* The caller has its answer; the session is ready for the next call.
Return ==
    /\ pc = "done"
    /\ pc' = "idle" /\ idx' = 0 /\ method' = "" /\ session' = FALSE
    /\ sent' = NoPayload /\ arguments' = NoPayload
    /\ injPath' = "none" /\ injRoots' = <<>> /\ enfPath' = "none" /\ enfRoots' = <<>>
    /\ log' = NoLog /\ ran' = <<>>
    /\ result' = NoResult /\ err' = "nil" /\ handlerCalls' = 0
    /\ received' = NoPayload
    /\ UNCHANGED <<server, roots>>
    /\ UNCHANGED notCallVars

Request(m, withSession, payload) == [method |-> m, session |-> withSession, payload |-> payload]

\* What reaches a server's chain: tools/call with any arguments and requests of
\* other methods (which carry no tool arguments), both on a session; and, on
\* the servers of the tests, the request without session that
\* Test*_PassthroughNilSession hands to the middleware.
Requests(srv) ==
    {Request("tools/call", TRUE, payload) : payload \in Payloads}
    \cup {Request("resources/list", TRUE, NoPayload)}
    \cup (IF srv.builtBy = "NewMCPServer" THEN {}
          ELSE {Request("tools/call", FALSE,
                        Payload("object", [f \in {"state"} |-> JString(<<"o","p","e","n">>)]))})

Next ==
    \/ pc = "idle" /\ \E root \in DeclaredRoots : AddRoots(root)
    \/ pc = "idle" /\ \E rq \in Requests(server) : Call(rq.method, rq.session, rq.payload)
    \/ UserAgentsStep
    \/ ErrorContextStep
    \/ InjectDepsStep
    \/ RootsMiddlewareStep
    \/ RootsEnforcementStep
    \/ Handler
    \/ Return

Spec == Init /\ [][Next]_vars

\* The steps of the goroutine that serves a request: each middleware runs to
\* its call of next or to its return, then the handler.  Session.ListRoots,
\* called with the context of the request, returns within such a step: with
\* the roots, or with an error when the client does not support roots, the
\* round trip fails or the context is cancelled.
Pipeline ==
    \/ UserAgentsStep
    \/ ErrorContextStep
    \/ InjectDepsStep
    \/ RootsMiddlewareStep
    \/ RootsEnforcementStep
    \/ Handler

\* The roots declared and the requests made where progress is looked at.
LiveRoots ==
    {McpRoot(URI("https", GitHubComMixed, A_R_git)),
     McpRoot(URI("http", GitHubCom, B_r)),
     McpRoot(URI("https", GitLabCom, A_r))}

LivePayloads ==
    {Payload("empty", NoFields), Payload("malformed", NoFields)}
    \cup {Payload("object", fs) :
             fs \in {g \in ArgumentObjects :
                        /\ "state" \notin DOMAIN g
                        /\ "owner" \in DOMAIN g => g["owner"].s \in {<<"A">>, <<"c">>}
                        /\ "repo" \in DOMAIN g => g["repo"].s \in {<<"R">>, <<"x">>}}}

LiveRequests(srv) ==
    {rq \in Requests(srv) : rq.method = "tools/call" => rq.payload \in LivePayloads \/ ~rq.session}

LiveNext ==
    \/ pc = "idle" /\ \E root \in LiveRoots : AddRoots(root)
    \/ pc = "idle" /\ \E rq \in LiveRequests(server) : Call(rq.method, rq.session, rq.payload)
    \/ Pipeline
    \/ Return

\* The goroutine of a request is always scheduled again: weak fairness of
\* every step of the pipeline.  For the two steps that call ListRoots it is
\* spelled out, such a step being possible exactly while its middleware is
\* the one running.
Scheduling ==
    /\ WF_vars(UserAgentsStep)
    /\ WF_vars(ErrorContextStep)
    /\ WF_vars(InjectDepsStep)
    /\ WF_vars(Handler)
    /\ ([]<>~Running("RootsMiddleware") \/ []<><<RootsMiddlewareStep>>_vars)
    /\ ([]<>~Running("RootsEnforcementMiddleware") \/ []<><<RootsEnforcementStep>>_vars)

LiveSpec == Init /\ [][LiveNext]_vars /\ Scheduling

----------------------------------------------------------------------------
(* The parser, the resolver and the two middlewares applied on their own   *)

\* Longest list of roots handed to ParseGitHubRoots.
MaxList == 2

\* The expected host: "" (github.com is taken), github.com, gitlab.com.
ExpectedHosts == {<<>>, GitHubCom, GitLabCom}

Octocat_HelloWorld ==
    <<"/","o","c","t","o","c","a","t","/","H","e","l","l","o","-","W","o","r","l","d">>

A_dotgit == <<"/","a","/",".","g","i","t">>

\* The paths url.Parse delivers for the URIs parsed.
ParserPaths ==
    {<<>>, Slash, <<"/","/","x">>, A_org, <<"/","A","/">>, <<"/","a","/","/">>, A_r,
     A_R_git, A_dotgit, <<"/","a","/","r",".","G","I","T">>, A_s_tree,
     <<"/","a","/","/","x">>, B_r, Octocat_HelloWorld}

\* url.Parse returned an error.
InvalidURI == [valid |-> FALSE, scheme |-> "", host |-> <<>>, path |-> <<>>]

\* The URIs parsed: unparsable ones, the empty URI ("" as scheme, host and
\* path), and every scheme, host and path of the lists.
ParserURIs ==
    {InvalidURI}
    \cup {URI(scheme, host, path) :
             scheme \in {"https", "http", "git", "ssh", ""},
             host \in {<<>>, GitHubCom, GitHubComMixed, GitLabCom},
             path \in ParserPaths}

HelloWorldRoot == McpRoot(URI("https", GitHubCom, Octocat_HelloWorld))

\* The entries of the lists resolved.
ListedRoots ==
    DeclaredRoots \cup {HelloWorldRoot, McpRoot(URI("https", GitHubCom, A_dotgit))}

StateOpen == Payload("object", [f \in {"state"} |-> JString(<<"o","p","e","n">>)])

\* The arguments the middlewares are applied to: none, bytes that are no
\* JSON object, {state:"open"}, and an owner and a repo, each present or not.
ScopePayloads ==
    {Payload("empty", NoFields), Payload("malformed", NoFields), StateOpen}
    \cup {p \in Payloads :
             /\ p.kind = "object" /\ "state" \notin DOMAIN p.fields
             /\ "owner" \in DOMAIN p.fields => p.fields["owner"].t = "string"
             /\ "repo" \in DOMAIN p.fields
                  => p.fields["repo"] \in {JString(<<"R">>), JString(<<"x">>)}}

UpperOf ==
    [c \in {LowerAlphabet[i] : i \in 1..Len(LowerAlphabet)} |->
        UpperAlphabet[CHOOSE i \in 1..Len(LowerAlphabet) : LowerAlphabet[i] = c]]

\* strings.ToUpper, on ASCII
ToUpper(s) == [i \in 1..Len(s) |-> IF s[i] \in DOMAIN UpperOf THEN UpperOf[s[i]] ELSE s[i]]

\* A name in another letter case.
Recase(how, s) ==
    CASE how = "upper" -> ToUpper(s)
      [] how = "lower" -> ToLower(s)
      [] OTHER -> s

\* A path with its owner and repo segments in another letter case.
RecasePath(how, path) ==
    LET segments == SplitN3(TrimPrefix(path, Slash))
    IN  (IF HasPrefix(path, Slash) THEN Slash ELSE <<>>)
        \o Recase(how, segments[1])
        \o (IF Len(segments) >= 2 THEN Slash \o Recase(how, segments[2]) ELSE <<>>)
        \o (IF Len(segments) >= 3 THEN Slash \o segments[3] ELSE <<>>)

\* Declared roots with the owner and repo of every URI in another letter case.
RecaseRoots(how, declared) ==
    [i \in 1..Len(declared) |->
        IF declared[i].nil THEN declared[i]
        ELSE McpRoot([declared[i].uri EXCEPT !.path = RecasePath(how, @)])]

\* Arguments with owner and repo in another letter case.
RecaseArguments(how, payload) ==
    Payload(payload.kind,
            [f \in DOMAIN payload.fields |->
                IF f \in {"owner", "repo"} /\ payload.fields[f].t = "string"
                THEN JString(Recase(how, payload.fields[f].s))
                ELSE payload.fields[f]])

\* How the roots and the arguments are written anew.
Recasings ==
    [roots : {"same", "upper", "lower"}, args : {"same", "upper", "lower"}]
    \ {[roots |-> "same", args |-> "same"]}

\* Longest list of roots that is enforced in another letter case as well.
MaxRecased == 1

\* Nothing has been applied yet.
Unapplied ==
    /\ pUri = NoURI /\ pInjected = NoInjection /\ pEnforced = NoEnforcement
    /\ pAnswer = NoAnswer

\* ParseGitHubRootURI(uri, host)
ParseURI(uri, expected) ==
    /\ Unapplied /\ pList = <<>>
    /\ pUri' = uri
    /\ pHost' = expected
    /\ pParsed' = ParseGitHubRootURI(uri, expected)
    /\ UNCHANGED <<pList, pResolved, pArgs, pInjected, pEnforced, pRecased, pChained, pAnswer>>
    /\ UNCHANGED notScopeVars

\* ParseGitHubRoots(roots, host), for a list one entry longer.
Resolve(root) ==
    /\ Unapplied /\ Len(pList) < MaxList
    /\ pList' = Append(pList, root)
    /\ pResolved' = ParseGitHubRoots(pList', pHost)
    /\ UNCHANGED <<pHost, pUri, pParsed, pArgs, pInjected, pEnforced, pRecased, pChained, pAnswer>>
    /\ UNCHANGED notScopeVars

\* A session that lists pList.
Listing(declared) == [err |-> FALSE, roots |-> declared]

\* RootsMiddleware on a tools/call of a session that lists pList, and
\* RootsEnforcementMiddleware on the arguments it hands on.
Inject(payload) ==
    /\ Unapplied
    /\ pArgs' = payload
    /\ pInjected' = RootsMiddleware("tools/call", TRUE, Listing(pList), pHost, ToolName, payload)
    /\ pChained' = RootsEnforcementMiddleware("tools/call", TRUE, Listing(pList), pHost,
                                               pInjected'.arguments)
    /\ UNCHANGED <<pHost, pUri, pParsed, pList, pResolved, pEnforced, pRecased, pAnswer>>
    /\ UNCHANGED notScopeVars

\* RootsEnforcementMiddleware on a tools/call of a session that lists pList.
Enforce(payload) ==
    /\ Unapplied
    /\ pArgs' = payload
    /\ pEnforced' = RootsEnforcementMiddleware("tools/call", TRUE, Listing(pList), pHost, payload)
    /\ UNCHANGED <<pHost, pUri, pParsed, pList, pResolved, pInjected, pRecased, pChained, pAnswer>>
    /\ UNCHANGED notScopeVars

\* The same, and RootsEnforcementMiddleware on the call with the owner and
\* repo of the roots and of the arguments in another letter case.
EnforceRecased(payload, how) ==
    /\ Unapplied /\ Len(pList) <= MaxRecased
    /\ pArgs' = payload
    /\ pEnforced' = RootsEnforcementMiddleware("tools/call", TRUE, Listing(pList), pHost, payload)
    /\ pRecased' =
          <<[roots |-> RecaseRoots(how.roots, pList),
             arguments |-> RecaseArguments(how.args, payload),
             forward |-> RootsEnforcementMiddleware(
                             "tools/call", TRUE, Listing(RecaseRoots(how.roots, pList)),
                             pHost, RecaseArguments(how.args, payload)).forward]>>
    /\ UNCHANGED <<pHost, pUri, pParsed, pList, pResolved, pInjected, pChained, pAnswer>>
    /\ UNCHANGED notScopeVars

\* The handler of the list_roots tool, called with or without a session;
\* the session lists pList or fails to.
CallListRoots(withSession, fails) ==
    /\ Unapplied
    /\ pAnswer' = ListRootsTool(withSession,
                                IF fails THEN [err |-> TRUE, roots |-> <<>>] ELSE Listing(pList),
                                pHost)
    /\ UNCHANGED <<pHost, pUri, pParsed, pList, pResolved, pArgs, pInjected, pEnforced,
                   pRecased, pChained>>
    /\ UNCHANGED notScopeVars

ScopeInit ==
    /\ server = TestEnforcementServer
    /\ roots = <<>>
    /\ Idle
    /\ pHost = Host
    /\ ScopeIdle
    /\ BuildIdle
    /\ SchemaIdle
    /\ SessionsIdle

ScopeNext ==
    \/ Unapplied /\ \E uri \in ParserURIs, expected \in ExpectedHosts : ParseURI(uri, expected)
    \/ Unapplied /\ \E root \in ListedRoots : Resolve(root)
    \/ Unapplied /\ \E payload \in ScopePayloads : Inject(payload)
    \/ Unapplied /\ \E payload \in ScopePayloads : Enforce(payload)
    \/ Unapplied /\ \E payload \in ScopePayloads, how \in Recasings :
                        EnforceRecased(payload, how)
    \/ Unapplied /\ \E withSession \in BOOLEAN, fails \in BOOLEAN :
                        CallListRoots(withSession, fails)

ScopeSpec == ScopeInit /\ [][ScopeNext]_vars

----------------------------------------------------------------------------
(* The construction of the Inventory at the start of the server            *)

\* NewStdioMCPServer(ctx, cfg): inventoryBuilder.Build()
BuildInventory(c) ==
    /\ cfg = NoConfig
    /\ cfg' = c
    /\ configured' = inventoryBuilder(c)
    /\ inventory' = Build(inventoryBuilder(c))
    /\ UNCHANGED notBuildVars

BuildInit ==
    /\ server = NewStdioMCPServer(FALSE)
    /\ roots = <<>>
    /\ Idle
    /\ pHost = Host
    /\ ScopeIdle
    /\ BuildIdle
    /\ SchemaIdle
    /\ SessionsIdle

BuildNext == cfg = NoConfig /\ \E c \in Configs : BuildInventory(c)

BuildSpec == BuildInit /\ [][BuildNext]_vars

----------------------------------------------------------------------------
(* The schema transform applied to a list of tools                         *)

\* Longest list of tools.
MaxTools == 2

\* tools = append(tools, tool)
DeclareTool(tool) ==
    /\ ~applied /\ Len(original) < MaxTools
    /\ original' = Append(original, tool)
    /\ UNCHANGED <<mem, memBefore, optional, applied>>
    /\ UNCHANGED notSchemaVars

\* result := MakeOwnerRepoOptional(tools)
ApplyOptional ==
    /\ ~applied
    /\ memBefore' = mem
    /\ mem' = MakeOwnerRepoOptional(original, mem).heap
    /\ optional' = MakeOwnerRepoOptional(original, mem).result
    /\ applied' = TRUE
    /\ UNCHANGED original
    /\ UNCHANGED notSchemaVars

SchemaInit ==
    /\ server = NewStdioMCPServer(TRUE)
    /\ roots = <<>>
    /\ Idle
    /\ pHost = Host
    /\ ScopeIdle
    /\ BuildIdle
    /\ SchemaIdle
    /\ SessionsIdle

SchemaNext ==
    \/ ~applied /\ \E tool \in DeclaredTools : DeclareTool(tool)
    \/ ApplyOptional

SchemaSpec == SchemaInit /\ [][SchemaNext]_vars

----------------------------------------------------------------------------
(* Two sessions of one server, their roots and their calls side by side    *)

\* Longest list of roots a session declares.
MaxSessionRoots == 1

\* The roots the sessions declare.
SessionRoots ==
    {McpRoot(URI("https", GitHubComMixed, A_R_git)),
     McpRoot(URI("https", GitHubCom, A_org)),
     McpRoot(URI("http", GitHubCom, B_r))}

\* The arguments of the sessions' calls: {state}, {owner, repo} and {owner}.
SessionPayloads ==
    {StateOpen,
     Payload("object", [f \in {"owner", "repo"} |->
                           IF f = "owner" THEN JString(<<"a">>) ELSE JString(<<"R">>)]),
     Payload("object", [f \in {"owner"} |-> JString(<<"b">>)])}

\* A listing that answers with the roots the session's last call was served
\* with, once there was one.
SessionListingCached(s) == IF sSeen[s] # <<>> THEN Listing(sSeen[s][1]) ELSE Listing(sRoots[s])

\* A listing that answers with the roots of all sessions.
SessionListingShared(s) == Listing(sRoots[1] \o sRoots[2])

\* callReq.Session.ListRoots(ctx, nil): the roots of the call's own session,
\* as they are declared when the middleware runs.
SessionListing(s) == Listing(sRoots[s])

\* session s: client.AddRoots(root), between calls or before the call is served
SessionAddRoots(s, root) ==
    /\ sCall[s].pc # "done"
    /\ Len(sRoots[s]) < MaxSessionRoots
    /\ sRoots' = [sRoots EXCEPT ![s] = Append(@, root)]
    /\ UNCHANGED <<sCall, sSeen>>
    /\ UNCHANGED notSessionVars

\* session s: clientSession.CallTool(ctx, params)
SessionCallTool(s, payload) ==
    /\ sCall[s].pc = "idle"
    /\ sCall' = [sCall EXCEPT ![s] = [NoCall EXCEPT !.pc = "called", !.payload = payload]]
    /\ UNCHANGED <<sRoots, sSeen>>
    /\ UNCHANGED notSessionVars

\* The server serves the call of session s: RootsMiddleware and
\* RootsEnforcementMiddleware, each on the arguments sent.
Serve(s) ==
    /\ sCall[s].pc = "called"
    /\ sCall' = [sCall EXCEPT ![s] =
                   [pc |-> "done",
                    payload |-> sCall[s].payload,
                    injected |-> RootsMiddleware("tools/call", TRUE, SessionListing(s),
                                                 Host, ToolName, sCall[s].payload),
                    enforced |-> RootsEnforcementMiddleware(
                                     "tools/call", TRUE, SessionListing(s), Host,
                                     sCall[s].payload)]]
    /\ UNCHANGED <<sRoots, sSeen>>
    /\ UNCHANGED notSessionVars

\* The caller of session s has its answer.
SessionReturn(s) ==
    /\ sCall[s].pc = "done"
    /\ sCall' = [sCall EXCEPT ![s] = NoCall]
    /\ sSeen' = [sSeen EXCEPT ![s] = <<sRoots[s]>>]
    /\ UNCHANGED sRoots
    /\ UNCHANGED notSessionVars

SessionsInit ==
    /\ server = TestInjectionServer
    /\ roots = <<>>
    /\ Idle
    /\ pHost = Host
    /\ ScopeIdle
    /\ BuildIdle
    /\ SchemaIdle
    /\ SessionsIdle

SessionsNext ==
    \E s \in Sessions :
        \/ \E root \in SessionRoots : SessionAddRoots(s, root)
        \/ \E payload \in SessionPayloads : SessionCallTool(s, payload)
        \/ Serve(s)
        \/ SessionReturn(s)

SessionsSpec == SessionsInit /\ [][SessionsNext]_vars

----------------------------------------------------------------------------
(* Vocabulary of the properties                                            *)

\* S: the session's resolved root list, from the roots the client declares.
Resolved == ParseGitHubRoots(roots, Host)

\* The owners of a resolved root list.
Owners(S) == {S[i].Owner : i \in 1..Len(S)}

\* RootsMiddleware ran in this call and its ListRoots returned the roots.
InjectionSawRoots ==
    injPath \notin {"none", "notToolsCall", "noSession", "listRootsFailed"}

\* RootsEnforcementMiddleware ran in this call and its ListRoots returned the roots.
EnforcementSawRoots ==
    enfPath \notin {"none", "notToolsCall", "noSession", "listRootsFailed"}

\* The call ended without the handler behind the chain being invoked.
Denied == pc = "done" /\ handlerCalls = 0

\* The enforcement has run and has called next.
Forwarded == enfPath # "none" /\ ~Denied

\* The arguments are a mapping (the payload is not malformed).
IsMapping(payload) == payload.kind # "malformed"

HasField(payload, f) == f \in DOMAIN payload.fields

\* The field holds a non-empty string.
HasText(payload, f) ==
    HasField(payload, f) /\ payload.fields[f].t = "string" /\ payload.fields[f].s # <<>>

\* Some root has owner == lower(O) and (no repo, or R is absent, or repo == lower(R)),
\* where O and R are the fields as written.
AllowedAsStated(S, payload) ==
    \E i \in 1..Len(S) :
        /\ S[i].Owner = ToLower(payload.fields["owner"].s)
        /\ \/ S[i].Repo = <<>>
           \/ ~HasField(payload, "repo")
           \/ S[i].Repo = ToLower(payload.fields["repo"].s)

\* The same, with a repo that is empty or no string counting as absent.
AllowedByRoots(S, payload) ==
    \E i \in 1..Len(S) :
        /\ S[i].Owner = ToLower(payload.fields["owner"].s)
        /\ \/ S[i].Repo = <<>>
           \/ ~HasText(payload, "repo")
           \/ S[i].Repo = ToLower(payload.fields["repo"].s)

----------------------------------------------------------------------------
(* C1 *)

----------------------------------------------------------------------------
(* C2 *)

\* C2: the injection never changes a field the caller supplied: every field of
\* the incoming arguments has the same value in the arguments next receives,
\* and only owner and repo can be added.
C2_SuppliedFieldsKept ==
    (injPath # "none" /\ IsMapping(sent))
    => /\ IsMapping(arguments)
       /\ \A f \in DOMAIN sent.fields :
             HasField(arguments, f) /\ arguments.fields[f] = sent.fields[f]
       /\ (DOMAIN arguments.fields) \ (DOMAIN sent.fields) \subseteq {"owner", "repo"}

----------------------------------------------------------------------------
(* C3 *)

\* C3: in a tools/call handled by a server NewMCPServer built, the injection has
\* completed before the enforcement starts, and both have completed before
\* the tool handler runs.
C3_InjectionThenEnforcementThenHandler ==
    (server.builtBy = "NewMCPServer" /\ method = "tools/call" /\ handlerCalls > 0)
    => \E i, j \in 1..Len(ran) :
          /\ i < j
          /\ ran[i] = "RootsMiddleware"
          /\ ran[j] = "RootsEnforcementMiddleware"

----------------------------------------------------------------------------
(* C4 *)

\* C4: the enforcement evaluates the arguments as they are after the injection:
\* a call whose owner or repo the injection filled in reaches the tool handler
\* of a server NewMCPServer built only after the owner and repo checks, so
\* only with an owner and repo the roots allow.
C4_InjectedArgumentsEnforced ==
    (server.builtBy = "NewMCPServer" /\ injPath = "injected" /\ handlerCalls > 0)
    => /\ enfPath # "none"
       /\ HasText(received, "owner") => AllowedByRoots(Resolved, received)

----------------------------------------------------------------------------
(* C5 *)

\* C5: when the resolved root list is empty (no root declared, or every
\* declared root nil or rejected by the parser), the injection leaves the
\* arguments as they were sent and the enforcement does not deny, whatever
\* owner and repo the call names.
C5_NoRootsNoScoping ==
    Len(Resolved) = 0
    => /\ arguments = sent
       /\ ~Denied
       /\ ~result.isError
       /\ (handlerCalls > 0 => received = sent)

\* A call naming an owner and a repo went through the enforcement of a session
\* whose declared roots are all nil or rejected.
C5_Witness ==
    /\ Len(roots) > 0 /\ Len(Resolved) = 0
    /\ EnforcementSawRoots /\ handlerCalls > 0
    /\ HasText(sent, "owner") /\ HasText(sent, "repo")

----------------------------------------------------------------------------
(* C6 *)

\* C6: for a resolved root set that spans two or more owners the injection
\* mutates nothing: next receives the incoming arguments, neither owner nor
\* repo added.
C6_SeveralOwnersNoInjection ==
    (injPath # "none" /\ Cardinality(Owners(injRoots)) >= 2)
    => /\ arguments = sent
       /\ ~log.emitted
       /\ (handlerCalls > 0 => received = sent)

\* The handler ran after the injection saw roots of two owners, for a call
\* that named neither owner nor repo.
C6_Witness ==
    /\ InjectionSawRoots /\ Cardinality(Owners(injRoots)) >= 2
    /\ IsMapping(sent) /\ ~HasField(sent, "owner") /\ ~HasField(sent, "repo")
    /\ handlerCalls > 0

----------------------------------------------------------------------------
(* C7 *)

\* C7: when all resolved roots share one owner and the arguments (a mapping)
\* have no owner field, the injection sets owner to that owner, whether repo is
\* present, absent or injected; a repo the caller gave stays as it is.
C7_OwnerInjected ==
    (InjectionSawRoots /\ Cardinality(Owners(injRoots)) = 1
        /\ IsMapping(sent) /\ ~HasField(sent, "owner"))
    => /\ HasField(arguments, "owner")
       /\ arguments.fields["owner"] = JString(injRoots[1].Owner)
       /\ HasField(sent, "repo")
            => HasField(arguments, "repo")
               /\ arguments.fields["repo"] = sent.fields["repo"]

\* Scenario B: the only resolved root is org-level and the call names a repo only.
C7_Witness ==
    /\ InjectionSawRoots /\ Len(injRoots) = 1 /\ injRoots[1].Repo = <<>>
    /\ ~HasField(sent, "owner") /\ HasText(sent, "repo")
    /\ handlerCalls > 0 /\ HasText(received, "owner")

----------------------------------------------------------------------------
(* C8 *)

\* The injection added the field.
Added(f) == IsMapping(sent) /\ ~HasField(sent, f) /\ HasField(arguments, f)

\* C8: when all resolved roots share one owner, the injection sets repo if and
\* only if repo is absent from the arguments (a mapping) and exactly one
\* resolved root has a non-empty repo, and then to that root's repo; with none
\* or with two or more repo-level roots repo is left untouched.
C8_RepoInjectedIffOneRepoRoot ==
    (InjectionSawRoots /\ Cardinality(Owners(injRoots)) = 1 /\ IsMapping(sent))
    => /\ Added("repo")
            <=> (~HasField(sent, "repo") /\ Len(RepoRoots(injRoots)) = 1)
       /\ Added("repo") => arguments.fields["repo"] = JString(RepoRoots(injRoots)[1].Repo)
       /\ ~Added("repo") => (HasField(arguments, "repo") <=> HasField(sent, "repo"))
       /\ HasField(sent, "repo") => arguments.fields["repo"] = sent.fields["repo"]

\* Two repo-level roots of one owner: owner was injected, repo was not.
C8_Witness ==
    /\ InjectionSawRoots /\ Cardinality(Owners(injRoots)) = 1
    /\ Len(RepoRoots(injRoots)) = 2
    /\ Added("owner") /\ ~HasField(arguments, "repo")
    /\ handlerCalls > 0

----------------------------------------------------------------------------
(* C9 *)

----------------------------------------------------------------------------
(* C10 *)

\* C10: every denial of the enforcement is terminal and recoverable: the call
\* ends with a tool result whose error flag is set and with a nil transport
\* error, and the handler behind the chain is not invoked for that call.
C10_DenialIsToolError ==
    /\ enfPath \in {"ownerDenied", "repoDenied"}
         => /\ pc = "done" /\ handlerCalls = 0 /\ received = NoPayload
            /\ result.isError /\ result.kind \in {"owner", "repo"}
            /\ err = "nil"
    /\ err = "nil"
    /\ result.isError => enfPath \in {"ownerDenied", "repoDenied"}

\* A denial for a repo outside the roots of an allowed owner.
C10_Witness ==
    /\ enfPath = "repoDenied" /\ pc = "done"
    /\ result.isError /\ result.kind = "repo"

----------------------------------------------------------------------------
(* C12 *)

\* The call met a soft failure: ListRoots returned an error, the argument
\* payload is no JSON object, or the arguments could not be written back.
SoftFailure ==
    \/ injPath \in {"listRootsFailed", "badArguments", "marshalFailed"}
    \/ enfPath \in {"listRootsFailed", "badArguments"}
    \/ ((injPath # "none" \/ enfPath # "none") /\ session /\ method = "tools/call"
          /\ sent.kind = "malformed")

\* C12: soft failures never abort the pipeline: when ListRoots fails, the
\* arguments cannot be parsed or cannot be written back, the middleware calls
\* next with the request as it came, so that the call ends with the handler
\* invoked exactly once on the arguments sent and with the handler's result;
\* the only calls that end without the handler invoked are the denials of the
\* enforcement.
C12_SoftFailuresPassThrough ==
    /\ SoftFailure
         => /\ arguments = sent
            /\ ~log.emitted
            /\ pc # "idle"
            /\ pc = "done"
                 => /\ handlerCalls = 1 /\ received = sent
                    /\ result.kind = "echo" /\ ~result.isError /\ err = "nil"
    /\ handlerCalls <= 1
    /\ (pc = "done" /\ handlerCalls = 0) => enfPath \in {"ownerDenied", "repoDenied"}

\* A call whose arguments are no JSON object, on a session with a resolved
\* root, has ended with the handler's result.
C12_Witness ==
    /\ pc = "done" /\ handlerCalls = 1 /\ sent.kind = "malformed"
    /\ (injPath = "badArguments" \/ enfPath = "badArguments")
    /\ result.kind = "echo"

----------------------------------------------------------------------------
(* C11 *)

\* The roots of S that are repo-level roots of the owner the arguments name.
RepoRootsOf(S, payload) ==
    {i \in 1..Len(S) :
        S[i].Owner = ToLower(payload.fields["owner"].s) /\ S[i].Repo # <<>>}

\* C11: an owner denial names the owner as the call wrote it and every
\* distinct owner of the resolved roots; a repo denial names the owner and
\* the repo as the call wrote them and exactly the repos of the repo-level
\* roots whose owner is the call's lower-cased owner.
C11_DenialNamesAllowed ==
    /\ pEnforced.path = "ownerDenied"
         => /\ pEnforced.result.kind = "owner"
            /\ pEnforced.result.owner = pArgs.fields["owner"].s
            /\ pEnforced.result.allowedOwners = Owners(pResolved)
    /\ pEnforced.path = "repoDenied"
         => /\ pEnforced.result.kind = "repo"
            /\ pEnforced.result.owner = pArgs.fields["owner"].s
            /\ pEnforced.result.repo = pArgs.fields["repo"].s
            /\ Len(pEnforced.result.allowedRepos)
                 = Cardinality(RepoRootsOf(pResolved, pArgs))
            /\ {pEnforced.result.allowedRepos[j] :
                    j \in 1..Len(pEnforced.result.allowedRepos)}
                 = {pResolved[i].Repo : i \in RepoRootsOf(pResolved, pArgs)}

\* A repo denial for an owner with one repo-level root, beside a repo-level
\* root of another owner.
C11_Witness ==
    /\ pEnforced.path = "repoDenied"
    /\ Len(pEnforced.result.allowedRepos) = 1
    /\ \E i \in 1..Len(pResolved) :
          /\ pResolved[i].Repo # <<>>
          /\ pResolved[i].Owner # ToLower(pArgs.fields["owner"].s)

----------------------------------------------------------------------------
(* C13 *)

\* C13: the enforcement is case-insensitive in owner and repo: writing the
\* owner or the repo of the root URIs or of the arguments in another letter
\* case never changes whether the call is forwarded or denied.
C13_CaseInsensitive ==
    pRecased # <<>> => pRecased[1].forward = pEnforced.forward

----------------------------------------------------------------------------
(* C14 *)

Octocat == <<"o","c","t","o","c","a","t">>

HelloWorld == <<"H","e","l","l","o","-","W","o","r","l","d">>

\* C14 (Scenario A): with the single declared root
\* https://HOST/octocat/Hello-World and the arguments {state:"open"}, the
\* arguments that leave the injection for the tool handler are exactly
\* {owner:"octocat", repo:"Hello-World", state:"open"}.
C14_ScenarioA ==
    (pList = <<HelloWorldRoot>> /\ pArgs = StateOpen /\ pInjected.path # "none")
    => pInjected.arguments
         = Payload("object", [owner |-> JString(Octocat),
                              repo  |-> JString(HelloWorld),
                              state |-> JString(<<"o","p","e","n">>)])

----------------------------------------------------------------------------
(* C15 *)

\* The path without one leading and one trailing slash.
Trimmed(path) == TrimSuffix(TrimPrefix(path, Slash), Slash)

\* The trimmed path has exactly one segment.
OneSegment(path) == Trimmed(path) # <<>> /\ IndexOf(Trimmed(path), "/") = 0

\* C15: for every root ParseGitHubRootURI or ParseGitHubRoots produces, repo
\* is empty if and only if the URI path, without its leading and trailing
\* slash, has exactly one segment; owner is then that segment in lower case.
C15_RepoEmptyIffOneSegment ==
    /\ pParsed.err = "nil"
         => /\ pParsed.repo = <<>> <=> OneSegment(pUri.path)
            /\ OneSegment(pUri.path) => pParsed.owner = ToLower(Trimmed(pUri.path))
    /\ \A i \in 1..Len(pResolved) :
          /\ pResolved[i].Repo = <<>> <=> OneSegment(pResolved[i].URI.path)
          /\ OneSegment(pResolved[i].URI.path)
               => pResolved[i].Owner = ToLower(Trimmed(pResolved[i].URI.path))

----------------------------------------------------------------------------
(* C16 *)

\* The text of s before its first slash, and the text after it.
UpToSlash(s) == IF IndexOf(s, "/") = 0 THEN s ELSE SubSeq(s, 1, IndexOf(s, "/") - 1)

AfterSlash(s) == IF IndexOf(s, "/") = 0 THEN <<>> ELSE SubSeq(s, IndexOf(s, "/") + 1, Len(s))

FirstSegment(path) == UpToSlash(Trimmed(path))

SecondSegment(path) == UpToSlash(AfterSlash(Trimmed(path)))

\* The trimmed path has two or more segments.
TwoOrMoreSegments(path) == IndexOf(Trimmed(path), "/") # 0

\* C16: for every accepted URI whose path has two or more segments,
\* ParseGitHubRootURI returns a repo-level root: owner is the lower-cased
\* first segment, repo is the lower-cased second segment with one trailing
\* ".git" removed, whatever the further segments are.
C16_TwoSegmentsRepoLevel ==
    (pParsed.err = "nil" /\ TwoOrMoreSegments(pUri.path))
        => /\ pParsed.repo # <<>>
           /\ pParsed.owner = ToLower(FirstSegment(pUri.path))
           /\ pParsed.repo = ToLower(TrimSuffix(SecondSegment(pUri.path), DotGit))

----------------------------------------------------------------------------
(* C17 *)

\* The host a URI is held against: github.com when none is expected.
ExpectedHost == IF pHost = <<>> THEN GitHubCom ELSE pHost

\* The reasons for an error the parser's contract names.
Rejectable ==
    \/ ~pUri.valid
    \/ pUri.scheme \notin {"https", "http", "git"}
    \/ ToLower(pUri.host) # ToLower(ExpectedHost)
    \/ Trimmed(pUri.path) = <<>>

\* C17 as stated: ParseGitHubRootURI returns an error exactly when the URI is
\* unparsable or empty, its scheme is none of https, http, git, its host
\* differs from the expected host ignoring case, or its path is empty; in
\* every other case it returns an (owner, repo) pair and no error.
C17_ErrorExactlyWhen ==
    pUri # NoURI
        => /\ pParsed.err # "nil" <=> Rejectable
           /\ pParsed.err = "nil" => pParsed.owner # <<>>

\* C17 amended: the parser also returns an error when the first segment of
\* the path is empty, as in https://github.com//x.
C17_ErrorExactlyWhenAmended ==
    pUri # NoURI
        => /\ pParsed.err # "nil" <=> (Rejectable \/ FirstSegment(pUri.path) = <<>>)
           /\ pParsed.err = "nil" => pParsed.owner # <<>>

\* A URI of a supported scheme and the expected host, written in another
\* letter case, whose path is not empty but starts with an empty segment, was
\* parsed and rejected.
C17_Witness ==
    /\ pUri # NoURI /\ pUri.valid
    /\ pUri.scheme = "https"
    /\ pUri.host # ExpectedHost /\ ToLower(pUri.host) = ToLower(ExpectedHost)
    /\ Trimmed(pUri.path) # <<>> /\ FirstSegment(pUri.path) = <<>>
    /\ pParsed.err # "nil"

----------------------------------------------------------------------------
(* C18 *)

\* Entry i of the list is not nil and ParseGitHubRootURI accepts its URI.
Accepted(i) == ~pList[i].nil /\ ParseGitHubRootURI(pList[i].uri, pHost).err = "nil"

\* The positions of the accepted entries, in input order.
Kept == SelectSeq([i \in 1..Len(pList) |-> i], Accepted)

\* C18: ParseGitHubRoots returns, in input order and without deduplication,
\* exactly one Root for each non-nil entry ParseGitHubRootURI accepts; nil
\* and rejected entries are skipped and the remaining entries are resolved
\* all the same.
C18_OneRootPerAcceptedEntry ==
    /\ Len(pResolved) = Len(Kept)
    /\ \A k \in 1..Len(Kept) :
          /\ pResolved[k].URI = pList[Kept[k]].uri
          /\ pResolved[k].Owner = ParseGitHubRootURI(pList[Kept[k]].uri, pHost).owner
          /\ pResolved[k].Repo = ParseGitHubRootURI(pList[Kept[k]].uri, pHost).repo

\* A list whose first entry is rejected and whose second entry is accepted
\* was resolved to the one Root of the second entry.
C18_Witness ==
    /\ Len(pList) = 2
    /\ ~pList[1].nil /\ ~Accepted(1) /\ Accepted(2)
    /\ Len(pResolved) = 1 /\ pResolved[1].URI = pList[2].uri

\* A list that names the same accepted root twice was resolved to two Roots.
C18_WitnessDuplicate ==
    /\ Len(pList) = 2 /\ pList[1] = pList[2] /\ Accepted(1)
    /\ Len(pResolved) = 2 /\ pResolved[1] = pResolved[2]

----------------------------------------------------------------------------
(* C19 *)

\* The Inventory the same configuration gives when nothing is excluded.
Unexcluded == Build([inventoryBuilder(cfg) EXCEPT !.excludeTools = {}])

\* C19: in the Inventory built for the server, a tool named in the exclude
\* list is absent, even if it is also named in the enabled-tools list or
\* belongs to an enabled toolset, whatever the toolset, tool, read-only,
\* feature and scope settings are.
C19_ExclusionWins ==
    inventory.built => \A name \in cfg.ExcludeTools : name \notin inventory.tools

\* An Inventory was built that lacks an excluded tool which is named in the
\* enabled-tools list, belongs to an enabled toolset and passes every other
\* filter, while another tool of that toolset is there.
C19_Witness ==
    /\ inventory.built
    /\ "create_issue" \in cfg.ExcludeTools \cap cfg.EnabledTools
    /\ "issues" \in ResolveToolsets(inventoryBuilder(cfg).toolsets)
    /\ "create_issue" \in Unexcluded.tools
    /\ "create_issue" \notin inventory.tools
    /\ "list_issues" \in inventory.tools

----------------------------------------------------------------------------
(* C21 *)

\* C21: ResolvedEnabledToolsets returns nil (use the defaults) if and only
\* if dynamic mode is off, no toolset list was given and no tool was named;
\* the empty list when no toolset list was given and dynamic mode is on or
\* tools were named; otherwise the given list, without "all" and "default"
\* when dynamic mode is on.
C21_ThreeStateSelection ==
    inventory.built
        => /\ configured.toolsets.nil
                <=> (~cfg.DynamicToolsets /\ cfg.EnabledToolsets.nil /\ cfg.EnabledTools = {})
           /\ (cfg.EnabledToolsets.nil /\ (cfg.DynamicToolsets \/ cfg.EnabledTools # {}))
                => configured.toolsets = List({})
           /\ ~cfg.EnabledToolsets.nil
                => configured.toolsets
                     = List(IF cfg.DynamicToolsets
                            THEN cfg.EnabledToolsets.items
                                 \ {ToolsetMetadataAll, ToolsetMetadataDefault}
                            ELSE cfg.EnabledToolsets.items)

\* A server was started in dynamic mode with the toolsets "all" and "issues"
\* and its builder was handed "issues" alone.
C21_Witness ==
    /\ inventory.built
    /\ cfg.DynamicToolsets
    /\ cfg.EnabledToolsets = List({ToolsetMetadataAll, "issues"})
    /\ configured.toolsets = List({"issues"})

\* A server was started with tools named and no toolset list, and its
\* builder was handed the empty list, not nil.
C21_WitnessTools ==
    /\ inventory.built
    /\ ~cfg.DynamicToolsets /\ cfg.EnabledToolsets.nil /\ cfg.EnabledTools # {}
    /\ configured.toolsets = List({})

----------------------------------------------------------------------------
(* C22 *)

\* Tool i was returned with a schema of its own.
Copied(i) == optional[i].schema # original[i].schema

\* C22: MakeOwnerRepoOptional is copy-on-write: after it returns every
\* schema of the input, with its required list and its property
\* descriptions, is as it was, and every field of an output schema other
\* than the required list and the descriptions of owner and repo equals the
\* input's.
C22_CopyOnWrite ==
    applied
        => /\ \A a \in 1..Len(memBefore) : mem[a] = memBefore[a]
           /\ Len(optional) = Len(original)
           /\ \A i \in 1..Len(original) :
                 /\ optional[i].name = original[i].name
                 /\ optional[i].holds = original[i].holds
                 /\ Copied(i)
                      => LET in  == memBefore[original[i].schema]
                             out == mem[optional[i].schema]
                         IN  /\ out.type = in.type
                             /\ out.description = in.description
                             /\ out.properties.nil = in.properties.nil
                             /\ DOMAIN out.properties.at = DOMAIN in.properties.at
                             /\ \A k \in DOMAIN in.properties.at :
                                   IF k \in {"owner", "repo"} /\ Exists(in, k)
                                   THEN /\ out.properties.at[k] # 0
                                        /\ mem[out.properties.at[k]].type
                                             = memBefore[in.properties.at[k]].type
                                        /\ mem[out.properties.at[k]].required
                                             = memBefore[in.properties.at[k]].required
                                        /\ mem[out.properties.at[k]].properties
                                             = memBefore[in.properties.at[k]].properties
                                   ELSE out.properties.at[k] = in.properties.at[k]

\* Two tools that share their schema, with owner and repo required and
\* described, were returned with schemas of their own, and the shared schema
\* still requires owner and repo.
C22_Witness ==
    /\ applied /\ Len(original) = 2
    /\ original[1].schema = original[2].schema
    /\ Copied(1) /\ Copied(2)
    /\ optional[1].schema # optional[2].schema
    /\ mem[original[1].schema].required = <<"owner", "repo">>
    /\ mem[optional[1].schema].required = <<>>

----------------------------------------------------------------------------
(* C23 *)

\* Tool i came with a jsonschema schema.
HasSchema(i) == original[i].holds = "jsonschema" /\ original[i].schema # 0

\* The required list of tool i without owner and repo, the others in order.
WithoutOwnerRepo(i) ==
    LET Other(r) == r \notin {"owner", "repo"}
    IN  SelectSeq(memBefore[original[i].schema].required, Other)

\* The required list of tool i names owner or repo.
RequiresOwnerOrRepo(i) ==
    WithoutOwnerRepo(i) # memBefore[original[i].schema].required

\* Tool i was returned without owner and repo in its required list and with
\* the note appended to the descriptions of its owner and repo properties.
MadeOptional(i) ==
    LET in  == memBefore[original[i].schema]
        out == mem[optional[i].schema]
    IN  /\ optional[i].holds = "jsonschema" /\ optional[i].schema # 0
        /\ out.required = WithoutOwnerRepo(i)
        /\ \A k \in {"owner", "repo"} :
              Exists(in, k)
                 => /\ Exists(out, k)
                    /\ mem[out.properties.at[k]].description
                         = memBefore[in.properties.at[k]].description \o OptionalNote

\* C23 as stated: for each descriptor MakeOwnerRepoOptional returns, at the
\* same position and under the same name, a descriptor whose required list
\* is the input's without owner and repo, the other entries in order, and
\* whose owner and repo descriptions carry the appended note.
C23_RequiredFilteredAndNoted ==
    applied
        => /\ Len(optional) = Len(original)
           /\ \A i \in 1..Len(original) :
                 /\ optional[i].name = original[i].name
                 /\ HasSchema(i) => MadeOptional(i)

\* C23 amended: the required list is filtered and the note is appended for
\* the descriptors whose required list names owner or repo; every other
\* descriptor is returned as it came, without the note.
C23_RequiredFilteredNotedIfRequired ==
    applied
        => /\ Len(optional) = Len(original)
           /\ \A i \in 1..Len(original) :
                 /\ optional[i].name = original[i].name
                 /\ IF HasSchema(i) /\ RequiresOwnerOrRepo(i)
                    THEN MadeOptional(i)
                    ELSE optional[i] = original[i]

\* A tool that requires sha, owner and path was returned requiring sha and
\* path, its owner description with the note, and after it a tool that
\* describes owner without requiring it was returned as it came.
C23_Witness ==
    /\ applied /\ Len(original) = 2
    /\ memBefore[original[1].schema].required = <<"sha", "owner", "path">>
    /\ mem[optional[1].schema].required = <<"sha", "path">>
    /\ mem[mem[optional[1].schema].properties.at["owner"]].description
         = <<"Repository owner">> \o OptionalNote
    /\ HasSchema(2) /\ ~RequiresOwnerOrRepo(2)
    /\ Exists(memBefore[original[2].schema], "owner")
    /\ optional[2] = original[2]

----------------------------------------------------------------------------
(* C24 *)

\* The call of session s has been served by the middlewares.
Served(s) == sCall[s].pc = "done"

----------------------------------------------------------------------------
(* C25 *)

----------------------------------------------------------------------------
(* C29 *)

\* RootsMiddleware filled in the owner of a call that named no repo.
OwnerFilledIn ==
    /\ pInjected # NoInjection
    /\ IsMapping(pArgs)
    /\ ~HasField(pArgs, "owner") /\ ~HasField(pArgs, "repo")
    /\ HasField(pInjected.arguments, "owner")

\* C29: injection and enforcement agree: whenever RootsMiddleware filled in
\* the owner of a call whose repo was absent (and is absent still, or was
\* filled in as well), RootsEnforcementMiddleware, applied with the same
\* roots to the arguments handed on, allows the call.
C29_InjectedCallAllowed ==
    OwnerFilledIn => pChained.forward /\ pChained.path = "allowed"

\* Owner and repo were filled in from the one repo-level root of a list
\* that holds a nil or rejected entry as well, and the enforcement allowed
\* the call.
C29_Witness ==
    /\ OwnerFilledIn
    /\ HasField(pInjected.arguments, "repo")
    /\ Len(pList) = 2 /\ Len(pInjected.ghRoots) = 1
    /\ pChained.path = "allowed"

----------------------------------------------------------------------------
(* C30 *)

\* The declared roots that are not nil, in the order declared.
NonNil == SelectSeq(pList, LAMBDA root : ~root.nil)

\* C30: list_roots always answers with a tool result and a nil error: an
\* error result when the request has no session or ListRoots fails; else
\* the text "No roots configured" when no roots are declared; else one
\* entry per declared root that is not nil, in the order declared, with
\* that root's URI, whether it is a GitHub URI or not; and an entry carries
\* an owner exactly when ParseGitHubRootURI accepts its URI, the owner and
\* the repo it carries being the parsed ones (a repo only if one was parsed).
C30_ListRootsAnswers ==
    pAnswer.returned =>
        /\ pAnswer.err = "nil"
        /\ pAnswer.isError <=>
               pAnswer.text \in {"no session available", "failed to list roots"}
        /\ (~pAnswer.isError /\ pList = <<>>) => pAnswer.text = "No roots configured"
        /\ (~pAnswer.isError /\ pList # <<>>) =>
               /\ pAnswer.text \in {"array", "null"}
               /\ Len(pAnswer.infos) = Len(NonNil)
               /\ \A i \in 1..Len(NonNil) :
                      LET info == pAnswer.infos[i]
                          p    == ParseGitHubRootURI(NonNil[i].uri, pHost)
                      IN  /\ info.uri = NonNil[i].uri
                          /\ "owner" \in info.keys <=> p.err = "nil"
                          /\ "owner" \in info.keys => info.owner = p.owner
                          /\ "repo" \in info.keys <=> (p.err = "nil" /\ p.repo # <<>>)
                          /\ "repo" \in info.keys => info.repo = p.repo

\* list_roots answered for a root on another host and a repo-level GitHub
\* root: two entries, only the second with owner and repo.
C30_Witness ==
    /\ pAnswer.returned /\ ~pAnswer.isError
    /\ Len(pList) = 2 /\ Len(pAnswer.infos) = 2
    /\ pAnswer.infos[1].keys = {"uri"}
    /\ pAnswer.infos[2].keys = {"uri", "owner", "repo"}

\* list_roots answered for a nil root and an org-level GitHub root: one
\* entry, with the owner and without a repo.
C30_WitnessNil ==
    /\ pAnswer.returned /\ ~pAnswer.isError
    /\ Len(pList) = 2 /\ pList[1].nil
    /\ Len(pAnswer.infos) = 1
    /\ pAnswer.infos[1].keys = {"uri", "owner"}

\* list_roots answered with an error result, without a session.
C30_WitnessError ==
    pAnswer.returned /\ pAnswer.isError /\ pAnswer.text = "no session available"

----------------------------------------------------------------------------
(* C28 *)

\* C28: RootsEnforcementMiddleware never modifies a call: on the server
\* whose chain is this middleware alone, whatever it forwards goes on, and
\* reaches the tool handler, with the arguments exactly as the caller sent
\* them (same fields, same values, same letter case).
C28_ForwardedUnmodified ==
    server = TestEnforcementServer =>
        /\ pc = "handler" => arguments = sent
        /\ handlerCalls > 0 => received = sent

\* The handler received owner "A" and repo "R" as sent, after the
\* enforcement allowed them against the root a/r.
C28_Witness ==
    /\ server = TestEnforcementServer
    /\ handlerCalls > 0 /\ enfPath = "allowed"
    /\ HasText(sent, "owner") /\ sent.fields["owner"].s = <<"A">>
    /\ HasText(sent, "repo") /\ sent.fields["repo"].s = <<"R">>
    /\ received = sent

----------------------------------------------------------------------------
(* C27 *)

\* RootsMiddleware set at least one field of the call.
FieldSet == Added("owner") \/ Added("repo")

\* The audit record is there, before the handler runs, exactly when a field
\* was set, and it names the tool called.
C27_RecordIffFieldSet ==
    /\ log.emitted <=> FieldSet
    /\ log.emitted => log.tool = ToolName

\* C27: RootsMiddleware emits the audit record if and only if it set at
\* least one field, before the handler runs, and the record names the tool,
\* the owner and (if applicable) the repo that were injected: the owner it
\* names is the owner the call goes on with, and it names a repo exactly
\* when it injected one, that repo.
C27_RecordNamesInjected ==
    /\ C27_RecordIffFieldSet
    /\ log.emitted =>
          /\ HasText(arguments, "owner") /\ log.owner = arguments.fields["owner"].s
          /\ log.hasRepo <=> Added("repo")
          /\ log.hasRepo => log.repo = arguments.fields["repo"].s

\* The record names owner "a", which was not injected: the caller named
\* owner "c", and only the repo was filled in.
C27_RecordNamesOtherOwner ==
    /\ log.emitted /\ ~Added("owner") /\ Added("repo")
    /\ HasText(sent, "owner") /\ sent.fields["owner"].s = <<"c">>
    /\ log.owner = <<"a">>

\* The record names repo "r", which was not injected: the caller named
\* repo "x", and only the owner was filled in.
C27_RecordNamesOtherRepo ==
    /\ log.emitted /\ Added("owner") /\ ~Added("repo")
    /\ HasText(sent, "repo") /\ sent.fields["repo"].s = <<"x">>
    /\ log.hasRepo /\ log.repo = <<"r">>

----------------------------------------------------------------------------
(* C26 *)

\* Session.ListRoots failed in one of the roots middlewares.
ListRootsFailed == injPath = "listRootsFailed" \/ enfPath = "listRootsFailed"

====
